---------------------------- MODULE Spec2Model ----------------------------
(***************************************************************************)
(* A model of RedisCacheProvider (src/src/app/RedisCacheProvider.ts): a    *)
(* two-tier cache (a local map with expiration timers, a remote Redis      *)
(* store) with a keyspace-event handler that refreshes the local map.      *)
(*                                                                         *)
(* One provider instance, the Redis server it talks to, and other clients  *)
(* of that server.  Strings that are keys are sequences of tokens, so that *)
(* prefixing is concatenation.  A remote call is sent where the code calls *)
(* it and takes effect, and resumes its caller, in a later step; calls on  *)
(* the primary connection are served in the order they were sent.          *)
(***************************************************************************)
EXTENDS Integers, Sequences, FiniteSets, TLC

\* ------------------------------------------------------------------ bounds

MaxDur      == 1    \* the longest duration (seconds) a caller passes
MaxInQ      == 3    \* messages and replies in flight on the subscription connection
MaxHandlers == 3    \* message-handler invocations that have not finished
MaxConn     == 2    \* the largest CACHE_NUM_CONN
MaxExt      == 1    \* writes by other clients of the server to one key

\* ---------------------------------------------------------- program constants

LEVEL_LOCAL  == 1
LEVEL_REMOTE == 2
LEVEL_BOTH   == 3

EVENT_PREFIX == "__keyspace@0__:"
SEP          == "::"

\* ------------------------------------------------------------------ values

\* JavaScript values: null, strings, numbers (named by their decimal text),
\* booleans (named by their text), arrays (named by their JSON text) and flat
\* objects (field -> value).
Null    == [t |-> "null"]
Str(s)  == [t |-> "str", s |-> s]
Num(s)  == [t |-> "num", s |-> s]
Bool(s) == [t |-> "bool", s |-> s]
Arr(s)  == [t |-> "arr", s |-> s]
Obj(f)  == [t |-> "obj", f |-> f]

NumTexts  == {"7"}
BoolTexts == {"true"}
ArrTexts == {"[7]"}

\* Maybe<T> of @micro-fleet/common
Nothing == [just |-> FALSE]
Just(v) == [just |-> TRUE, v |-> v]

\* What the server holds under a key: nothing, a string, or a hash of strings.
Nil        == [t |-> "nil"]
RString(s) == [t |-> "string", s |-> s]
RHash(f)   == [t |-> "hash", f |-> f]

\* The reply a call gets when the key holds the other type (WRONGTYPE).
ReplyError == [t |-> "error"]

\* a key with no time to live
NoTtl == 0 - 1

\* ------------------------------------------------------------------ keys

Name     == <<"svc">>
K1       == <<"k1">>
K2       == <<"k2">>
UserKeys == {K1, K2}
HASH_KEY == <<"@#!">>

\* Names and keys are strings, modelled as sequences of pieces that contain
\* no colon, and of "::" pieces: two strings are equal exactly when their
\* sequences are. Another instance on the same server has another name, and
\* callers may pass a key that contains "::".
OtherNames == {<<"svc", SEP, "x">>}
K3         == <<"x", SEP, "k1">>
CallKeys   == UserKeys \cup {K3}

\* A key argument that is undefined: a piece that no string has. The string
\* "undefined" is a key like any other.
Missing  == <<"(undefined)">>
UndefKey == <<"undefined">>

\* `${key}`: the text of a key inside a template string
KeyText(key) == IF key = Missing THEN UndefKey ELSE key

\* `${this._options.name}::${key}` of the instance called name
RealKeyOf(name, key) == name \o <<SEP>> \o KeyText(key)

RealKey(key) == RealKeyOf(Name, key)

StoreKey(key, isGlobal) == IF isGlobal THEN key ELSE RealKey(key)

\* Every key of the server: global keys and the keys of the instances
AllKeys ==
    CallKeys \cup {RealKeyOf(n, k) : n \in {Name} \cup OtherNames, k \in CallKeys}
             \cup {UndefKey, RealKey(UndefKey)}

\* A variant of the channel name: the keyspace of another database
ChannelOtherDb(key) == <<"__keyspace@1__:">> \o key

\* `${EVENT_PREFIX}${key}`, line 451
Channel(key) == <<EVENT_PREFIX>> \o key

\* /__keyspace@0__:(.*)/ on a channel name: what follows the prefix
ExtractKey(channel) == Tail(channel)

\* ------------------------------------------------------------------ maps

\* JavaScript objects used as maps: functions whose domain is the keys present.
Has(m, k)    == k \in DOMAIN m
Put(m, k, v) == [x \in (DOMAIN m) \cup {k} |-> IF x = k THEN v ELSE m[x]]
Del(m, k)    == [x \in (DOMAIN m) \ {k} |-> m[x]]
Empty        == [x \in {} |-> 0]

\* ------------------------------------------------------------------ codec

\* String(v): what node-redis sends for a value, and what JSON.parse is handed
ArrJoin(text) == IF text = "[7]" THEN "7" ELSE text
JsText(v) ==
    IF v.t = "arr" THEN ArrJoin(v.s)
    ELSE IF v.t = "obj" THEN "[object Object]"
    ELSE IF v.t = "null" THEN "null"
    ELSE v.s
ToText(v) == JsText(v)

\* JSON.stringify: the text of an array; "null" for null
Stringify(arr) == IF arr.t = "arr" THEN Str(arr.s) ELSE Str(JsText(arr))

\* JSON.parse: throws on text that is not JSON
IsJson(text) == text \in NumTexts \cup BoolTexts \cup ArrTexts
JsonParse(text) ==
    IF text \in NumTexts THEN Num(text)
    ELSE IF text \in BoolTexts THEN Bool(text)
    ELSE Arr(text)

ParsePrimitiveType(text) == IF IsJson(text) THEN JsonParse(text) ELSE Str(text)

ParseObjectType(f) == [p \in DOMAIN f |-> ParsePrimitiveType(f[p])]

\* hmset(key, object): every field as its string; without fields the server
\* refuses the HMSET and the DEL of the MULTI leaves no entry
ToHash(obj) ==
    IF obj.t = "obj" THEN RHash([p \in DOMAIN obj.f |-> ToText(obj.f[p])]) ELSE Nil

\* GET and HGETALL as the server answers them
ReplyGet(rv) ==
    IF rv.t = "nil" THEN Nil ELSE IF rv.t = "string" THEN rv ELSE ReplyError
ReplyHgetall(rv) ==
    IF rv.t = "nil" THEN Nil ELSE IF rv.t = "hash" THEN rv ELSE ReplyError

\* _fetchPrimitive / _fetchObject after the reply: null gives Nothing
FetchPrimitive(reply, parseType) ==
    IF reply.t = "nil" THEN Nothing
    ELSE Just(IF parseType THEN ParsePrimitiveType(reply.s) ELSE Str(reply.s))

FetchObject(reply, parseType) ==
    IF reply.t = "nil" THEN Nothing
    ELSE Just(Obj(IF parseType THEN ParseObjectType(reply.f)
                  ELSE [p \in DOMAIN reply.f |-> Str(reply.f[p])]))

\* A variant of _includeBit: (source & target) != 0
IncludeBitAny(source, target) ==
    \/ source % 2 = 1 /\ target % 2 = 1
    \/ source \div 2 = 1 /\ target \div 2 = 1

\* (source & target) == target, for target one of the three levels
IncludeBit(source, target) ==
    IF target = LEVEL_BOTH THEN source % 4 = 3
    ELSE (source \div target) % 2 = 1


\* ------------------------------------------------------------------ state

VARIABLES
    hasEngine,    \* _engine != null: the instance was built with single or cluster
    localCache,   \* _localCache: storage key -> value
    cacheExps,    \* _cacheExps: storage key -> seconds left of the timer whose token it holds
    orphans,      \* pending timers whose token _cacheExps no longer holds: {[k, rem]}
    cacheLocks,   \* _cacheLocks: lock key -> chain of locks, newest first
    engineSub,    \* _engineSub != null (the message handler is installed with it)
    handlerKey,   \* the key the installed message handler closed over
    subs,         \* channels the server delivers to the subscription connection
    remote,       \* the server: storage key -> Nil, a string or a hash
    rexp,         \* the server: storage key -> seconds left to live, or NoTtl
    inQ,          \* subscription connection, inbound: messages and replies, in order
    mainQ,        \* primary connection: the tasks whose call awaits its reply, in order
    handlers,     \* message-handler invocations in progress
    op,           \* the caller's current (or last) operation, where it stands, and
                  \* the seconds since it returned (counted up to MaxDur + 1)
    extLeft,      \* storage key -> writes other clients may still make to it
    disposed,     \* dispose has set _engine, _localCache and _cacheExps to null
    conn,         \* the connections: cluster (the options name a cluster), open
                  \* (subscription connections created by _connectSingle and not
                  \* quit), listeners ('message' handlers installed)
    tasks,        \* callers that overlap: caller -> its operation and where it stands
    addOn         \* CacheAddOn: its settings and what init made of them

vars == <<hasEngine, localCache, cacheExps, orphans, cacheLocks, engineSub,
          handlerKey, subs, remote, rexp, inQ, mainQ, handlers, op, extLeft,
          disposed, conn, tasks, addOn>>

instVars   == <<localCache, cacheExps, orphans, cacheLocks>>
subVars    == <<engineSub, handlerKey, subs, conn>>
serverVars == <<remote, rexp>>

USER == 0
HandlerIds == 1..MaxHandlers

FreeHandler == [pc |-> "free", akey |-> <<>>, action |-> "", waitOn |-> 0]

NoResult == [st |-> "none", val |-> Nothing]
Ok       == [st |-> "ok", val |-> Nothing]
Failed(e) == [st |-> e, val |-> Nothing]
Got(m)   == [st |-> "ok", val |-> m]

IdleOp == [kind |-> "none", key |-> <<>>, isGlobal |-> FALSE, val |-> Null,
           level |-> 0, dur |-> 0, forceRemote |-> FALSE, parseType |-> TRUE,
           keySet |-> {}, cursor |-> "", pc |-> "idle", res |-> NoResult,
           since |-> 0]

\* No connection but the primary one, no handler
NoConn == [cluster |-> FALSE, open |-> 0, listeners |-> 0]

\* _syncOn, lines 417-422: a cluster client also takes the subscriptions, a
\* single server gets a second connection
ConnectSub(c) == IF c.cluster THEN c ELSE [c EXCEPT !.open = @ + 1]

\* sub.on('message', ...), line 426
OnMessage(c) == [c EXCEPT !.listeners = @ + 1]

\* this._engineSub.quitAsync(), line 96: the connection goes, with its handler
QuitSub(c) ==
    [c EXCEPT !.open = IF c.cluster THEN @ ELSE @ - 1,
              !.listeners = IF @ > 0 THEN @ - 1 ELSE 0]

TaskIds == {MaxHandlers + 1, MaxHandlers + 2}

IdleTask == [kind |-> "none", key |-> <<>>, pc |-> "idle", res |-> NoResult]

\* A CacheAddOn that has not run init. A setting is a string or number
\* (arr FALSE, one item) or an array (arr TRUE, its items).
NoAddOn == [slug |-> FALSE, nConn |-> 0,
            hosts |-> [arr |-> FALSE, items |-> <<>>],
            ports |-> [arr |-> FALSE, items |-> <<>>],
            pc |-> "none", mode |-> "none", details |-> <<>>]

\* constructor, lines 63-81; the server starts empty
Built(c, a) ==
    /\ disposed = FALSE
    /\ conn = c
    /\ tasks = [t \in TaskIds |-> IdleTask]
    /\ addOn = a
    /\ hasEngine \in BOOLEAN
    /\ localCache = [x \in {HASH_KEY} |-> Null]
    /\ cacheExps = Empty
    /\ orphans = {}
    /\ cacheLocks = Empty
    /\ engineSub = FALSE
    /\ handlerKey = <<>>
    /\ subs = {}
    /\ remote = [k \in AllKeys |-> Nil]
    /\ rexp = [k \in AllKeys |-> NoTtl]
    /\ inQ = <<>>
    /\ mainQ = <<>>
    /\ handlers = [h \in HandlerIds |-> FreeHandler]
    /\ op = IdleOp
    /\ extLeft = [k \in AllKeys |-> MaxExt]

Init == Built(NoConn, NoAddOn)

\* ------------------------------------------------------------ local store

\* _deleteLocal: the entry, the timer whose token is stored, the token
DeleteLocalCache(cache, key) == Del(cache, key)
DeleteLocalExps(exps, key)   == Del(exps, key)

\* A variant of _setLocalExp that starts no timer
SetLocalExpsNever(exps, key, duration) == exps

\* _setLocalExp: a new timer when duration > 0; the token of an earlier timer
\* is overwritten, the earlier timer stays pending
SetLocalExps(exps, key, duration) ==
    IF duration > 0 THEN Put(exps, key, duration) ELSE exps
SetLocalOrphans(orph, exps, key, duration) ==
    IF duration > 0 /\ Has(exps, key)
    THEN orph \cup {[k |-> key, rem |-> exps[key]]}
    ELSE orph

\* A variant of _defaultLevel: both tiers when there is a remote client
DefaultLevelBoth(level) ==
    IF level # 0 THEN level
    ELSE IF hasEngine THEN LEVEL_BOTH ELSE LEVEL_LOCAL

\* _defaultLevel
DefaultLevel(level) ==
    IF level # 0 THEN level
    ELSE IF hasEngine THEN LEVEL_REMOTE ELSE LEVEL_LOCAL

\* ------------------------------------------------------------ the server

Msg(key, action) == [ch |-> Channel(key), action |-> action]

\* The keyspace messages of a command sequence on key, for the subscriber
Publish(key, actions) ==
    IF Channel(key) \in subs
    THEN [i \in 1..Len(actions) |-> Msg(key, actions[i])]
    ELSE <<>>

\* MULTI / DEL key / SET or HMSET key / [EXPIRE key d] / EXEC
MultiEvents(key, rv, duration) ==
    (IF remote[key] # Nil THEN <<"del">> ELSE <<>>)
    \o <<IF rv.t = "hash" THEN "hset" ELSE "set">>
    \o (IF duration > 0 THEN <<"expire">> ELSE <<>>)

IsReply(item) == item.action \in {"subscribe", "unsubscribe"}
Reply(key, action) == [ch |-> Channel(key), action |-> action]

\* The most messages a MULTI of a setter on key can publish
MaxEvents(key, duration) ==
    IF Channel(key) \in subs THEN 2 + (IF duration > 0 THEN 1 ELSE 0) ELSE 0

\* Room for n more messages on the subscription connection. A write is only
\* started when its messages will fit, so the server never waits for room.
Room(n) == Len(SelectSeq(inQ, LAMBDA m : ~IsReply(m))) + n <= MaxInQ

\* ------------------------------------------------------------ key locks

\* A variant of _peekLock that never finds a lock
PeekLockNone(locks, key) == 0

\* _peekLock: the first lock of the chain, or none (0)
PeekLock(locks, key) ==
    IF Has(locks, key) /\ locks[key] # <<>> THEN locks[key][1] ELSE 0

\* _pushLock: a new lock at the beginning of the chain
PushLock(locks, key, lock) ==
    Put(locks, key, <<lock>> \o (IF Has(locks, key) THEN locks[key] ELSE <<>>))

\* A variant of _popLock that hands out the first lock of the chain
PoppedLockFirst(locks, key) == locks[key][1]

\* _popLock: the last lock of the chain; an empty chain is removed
PoppedLock(locks, key) == locks[key][Len(locks[key])]
\* A variant of _popLock that keeps a chain that has become empty
PopLockKeep(locks, key) ==
    Put(locks, key, SubSeq(locks[key], 1, Len(locks[key]) - 1))

PopLock(locks, key) ==
    IF Len(locks[key]) = 1 THEN Del(locks, key)
    ELSE Put(locks, key, SubSeq(locks[key], 1, Len(locks[key]) - 1))

\* A variant of _releaseKey that resolves no lock: h has finished, the
\* invocation awaiting the popped lock stays suspended
ReleasedNoResolve(hs, locks, key, h) ==
    [x \in HandlerIds |-> IF x = h THEN FreeHandler ELSE hs[x]]

\* _releaseKey by invocation h: the popped lock is resolved, which resumes
\* the invocation that awaits it; h has finished
Released(hs, locks, key, h) ==
    [x \in HandlerIds |->
        IF x = h THEN FreeHandler
        ELSE IF hs[x].pc = "wait" /\ hs[x].waitOn = PoppedLock(locks, key)
        THEN [hs[x] EXCEPT !.pc = "ready"]
        ELSE hs[x]]

\* A resumed invocation runs before any other callback (a microtask)
NoReady == \A h \in HandlerIds : handlers[h].pc # "ready"

\* ------------------------------------------------------- message handler

\* The handler after `await this._lockKey(key)`, lines 431-446, with hs and
\* locks the invocations and chains as the acquisition left them
HandlerBody(h, hs, locks) ==
    IF hs[h].action \in {"set", "hset"}
    THEN /\ handlers' = [hs EXCEPT ![h].pc = "fetch"]
         /\ mainQ' = Append(mainQ, h)
         /\ cacheLocks' = locks
         /\ UNCHANGED <<localCache, cacheExps>>
    ELSE /\ IF hs[h].action = "del"
            THEN /\ localCache' = DeleteLocalCache(localCache, hs[h].akey)
                 /\ cacheExps' = DeleteLocalExps(cacheExps, hs[h].akey)
            ELSE UNCHANGED <<localCache, cacheExps>>
         /\ handlers' = Released(hs, locks, handlerKey, h)
         /\ cacheLocks' = PopLock(locks, handlerKey)
         /\ UNCHANGED mainQ

FreeId == CHOOSE h \in HandlerIds :
            /\ handlers[h].pc = "free"
            /\ \A g \in HandlerIds : g < h => handlers[g].pc # "free"

\* sub.on('message', ...), lines 426-430: a message arrives, _lockKey(key)
Deliver ==
    /\ NoReady
    /\ inQ # <<>> /\ ~IsReply(Head(inQ))
    /\ \E h \in HandlerIds : handlers[h].pc = "free"
    /\ LET h     == FreeId
           prior == PeekLock(cacheLocks, handlerKey)
           locks == PushLock(cacheLocks, handlerKey, h)
           inv   == [pc |-> IF prior = 0 THEN "run" ELSE "wait",
                     akey |-> ExtractKey(Head(inQ).ch),
                     action |-> Head(inQ).action, waitOn |-> prior]
           hs    == [handlers EXCEPT ![h] = inv]
       IN  /\ inQ' = Tail(inQ)
           /\ IF prior = 0
              THEN HandlerBody(h, hs, locks)
              ELSE /\ handlers' = hs
                   /\ cacheLocks' = locks
                   /\ UNCHANGED <<localCache, cacheExps, mainQ>>
    /\ UNCHANGED <<hasEngine, disposed, orphans, subVars, serverVars, op, extLeft, tasks, addOn>>

\* An invocation whose awaited lock was released goes on
HandlerResume(h) ==
    /\ handlers[h].pc = "ready"
    /\ HandlerBody(h, handlers, cacheLocks)
    /\ UNCHANGED <<hasEngine, disposed, orphans, subVars, serverVars, inQ, op, extLeft, tasks,
                   addOn>>

\* The reply to the handler's GET / HGETALL, lines 433-438 and 446
HandlerReply(h) ==
    /\ NoReady
    /\ handlers[h].pc = "fetch"
    /\ mainQ # <<>> /\ Head(mainQ) = h
    /\ mainQ' = Tail(mainQ)
    /\ LET akey  == handlers[h].akey
           reply == IF handlers[h].action = "set"
                    THEN ReplyGet(remote[akey]) ELSE ReplyHgetall(remote[akey])
           got   == IF handlers[h].action = "set"
                    THEN FetchPrimitive(reply, TRUE) ELSE FetchObject(reply, TRUE)
       IN  IF reply = ReplyError
           THEN \* the call rejects: the handler ends without _releaseKey
                /\ handlers' = [handlers EXCEPT ![h].pc = "dead"]
                /\ UNCHANGED <<localCache, cacheLocks>>
           ELSE /\ localCache' = IF got.just THEN Put(localCache, akey, got.v)
                                 ELSE localCache
                /\ handlers' = Released(handlers, cacheLocks, handlerKey, h)
                /\ cacheLocks' = PopLock(cacheLocks, handlerKey)
    /\ UNCHANGED <<hasEngine, disposed, cacheExps, orphans, subVars, serverVars, inQ, op,
                   extLeft, tasks, addOn>>

\* ------------------------------------------------------------ the caller

\* dispose has returned: _engine, _localCache and _cacheExps are null. The
\* null maps are modelled as empty maps of a disposed instance.
Disposed == disposed

\* The caller may start an operation; a disposed instance is not called again
Idle == op.pc \in {"idle", "done"} /\ ~Disposed

SKey == StoreKey(op.key, op.isGlobal)

Finish(o, res) == [o EXCEPT !.pc = "done", !.res = res]

\* A variant of the guard that lets null through
ArgDefinedAlways(v) == TRUE

\* Guard.assertArgDefined
ArgDefined(v) == v # Null

\* A key argument as Guard.assertArgDefined sees it
JsKey(key) == IF key = Missing THEN Null ELSE Str(key)

\* What a setter stores: setArray hands the JSON text to setPrimitive
StoredValue(kind, value) == IF kind = "setArray" THEN Stringify(value) ELSE value

\* What the setter's MULTI writes: SET for primitives and arrays, HMSET for objects
WireValue(kind, stored) ==
    IF kind = "setObject" THEN ToHash(stored) ELSE RString(ToText(stored))

\* setPrimitive / setArray / setObject up to the first await, lines 240-267
CallSet(kind, key, isGlobal, value, level, duration) ==
    /\ NoReady /\ Idle
    /\ LET o     == [IdleOp EXCEPT !.kind = kind, !.key = key, !.isGlobal = isGlobal,
                                   !.val = value, !.level = level, !.dur = duration]
           lvl   == DefaultLevel(level)
           skey  == StoreKey(key, isGlobal)
           sv    == StoredValue(kind, value)
       IN  IF ~ArgDefined(JsKey(key)) \/ ~ArgDefined(value)
           THEN /\ op' = Finish(o, Failed("InvalidArgument"))
                /\ UNCHANGED <<localCache, cacheExps, orphans, mainQ, subVars, inQ>>
           ELSE /\ IF IncludeBit(lvl, LEVEL_LOCAL)
                   THEN /\ localCache' = Put(localCache, skey, sv)
                        /\ cacheExps' = SetLocalExps(cacheExps, skey, duration)
                        /\ orphans' = SetLocalOrphans(orphans, cacheExps, skey, duration)
                   ELSE UNCHANGED <<localCache, cacheExps, orphans>>
                /\ IF hasEngine /\ IncludeBit(lvl, LEVEL_REMOTE)
                   THEN /\ Room(MaxEvents(skey, duration))
                        /\ mainQ' = Append(mainQ, USER)
                        /\ op' = [o EXCEPT !.pc = "exec"]
                        /\ UNCHANGED <<subVars, inQ>>
                   ELSE IF hasEngine /\ IncludeBit(lvl, LEVEL_BOTH)
                   THEN /\ engineSub' = TRUE
                        /\ conn' = IF engineSub THEN conn ELSE OnMessage(ConnectSub(conn))
                        /\ handlerKey' = IF engineSub THEN handlerKey ELSE skey
                        /\ subs' = subs \cup {Channel(skey)}
                        /\ inQ' = Append(inQ, Reply(skey, "subscribe"))
                        /\ op' = [o EXCEPT !.pc = "subscribe"]
                        /\ UNCHANGED mainQ
                   ELSE /\ UNCHANGED <<mainQ, subVars, inQ>>
                        /\ op' = Finish(o, Ok)
    /\ UNCHANGED <<hasEngine, disposed, cacheLocks, serverVars, handlers, extLeft, tasks, addOn>>

\* multi.execAsync() is answered; then _syncOn(key) up to its await, lines 262-267, 412-451
SetExec ==
    /\ NoReady
    /\ op.pc = "exec"
    /\ mainQ # <<>> /\ Head(mainQ) = USER
    /\ LET rv     == WireValue(op.kind, StoredValue(op.kind, op.val))
           events == Publish(SKey, MultiEvents(SKey, rv, op.dur))
           lvl    == DefaultLevel(op.level)
       IN  /\ mainQ' = Tail(mainQ)
           /\ remote' = [remote EXCEPT ![SKey] = rv]
           /\ rexp' = [rexp EXCEPT ![SKey] = IF op.dur > 0 THEN op.dur ELSE NoTtl]
           /\ IF hasEngine /\ IncludeBit(lvl, LEVEL_BOTH)
              THEN /\ engineSub' = TRUE
                   /\ conn' = IF engineSub THEN conn ELSE OnMessage(ConnectSub(conn))
                   /\ handlerKey' = IF engineSub THEN handlerKey ELSE SKey
                   /\ subs' = subs \cup {Channel(SKey)}
                   /\ inQ' = inQ \o events \o <<Reply(SKey, "subscribe")>>
                   /\ op' = [op EXCEPT !.pc = "subscribe"]
              ELSE /\ inQ' = inQ \o events
                   /\ op' = Finish(op, Ok)
                   /\ UNCHANGED subVars
    /\ UNCHANGED <<hasEngine, disposed, instVars, handlers, extLeft, tasks, addOn>>

\* A variant of the failing write that takes the local entry back
SetExecRollsBack ==
    /\ NoReady
    /\ op.pc = "exec"
    /\ mainQ # <<>> /\ Head(mainQ) = USER
    /\ mainQ' = Tail(mainQ)
    /\ op' = Finish(op, Failed("ReplyError"))
    /\ localCache' = DeleteLocalCache(localCache, SKey)
    /\ UNCHANGED <<hasEngine, disposed, cacheExps, orphans, cacheLocks, subVars, serverVars,
                   inQ, handlers, extLeft, tasks, addOn>>

\* multi.execAsync() is rejected (the connection is lost, the server refuses):
\* `await` throws on line 262 / 309, the setter fails and runs nothing more
SetExecFails ==
    /\ NoReady
    /\ op.pc = "exec"
    /\ mainQ # <<>> /\ Head(mainQ) = USER
    /\ mainQ' = Tail(mainQ)
    /\ op' = Finish(op, Failed("ReplyError"))
    /\ UNCHANGED <<hasEngine, disposed, instVars, subVars, serverVars, inQ, handlers, extLeft,
                   tasks, addOn>>

\* sub.subscribeAsync() is answered: the setter returns
SetSubscribed ==
    /\ NoReady
    /\ op.pc = "subscribe"
    /\ inQ # <<>> /\ IsReply(Head(inQ))
    /\ inQ' = Tail(inQ)
    /\ op' = Finish(op, Ok)
    /\ UNCHANGED <<hasEngine, disposed, instVars, subVars, serverVars, mainQ, handlers,
                   extLeft, tasks, addOn>>

\* stringified.map(JSON.parse) of getArray, line 210
MapJsonParse(m) ==
    IF ~m.just THEN Got(Nothing)
    ELSE IF m.v.t = "null" THEN Got(Just(Null))
    ELSE IF IsJson(JsText(m.v)) THEN Got(Just(JsonParse(JsText(m.v))))
    ELSE Failed("SyntaxError")

\* The getter's answer from a local entry
LocalResult(kind, v) ==
    IF kind = "getArray" THEN MapJsonParse(Just(v)) ELSE Got(Just(v))

\* The getter's answer from the server's entry rv
RemoteResult(kind, rv, parseType) ==
    IF kind = "getObject"
    THEN IF ReplyHgetall(rv) = ReplyError THEN Failed("ReplyError")
         ELSE Got(FetchObject(ReplyHgetall(rv), parseType))
    ELSE IF ReplyGet(rv) = ReplyError THEN Failed("ReplyError")
    ELSE IF kind = "getArray" THEN MapJsonParse(FetchPrimitive(ReplyGet(rv), FALSE))
    ELSE Got(FetchPrimitive(ReplyGet(rv), parseType))

\* A variant of the lookup that tries the local entry first
RouteLocalFirst(forceRemote, engine, hasLocal) ==
    IF hasLocal THEN "local"
    ELSE IF engine THEN "remote"
    ELSE "nowhere"

\* Where a getter looks, lines 176-186: "remote", "local" or "nowhere"
Route(forceRemote, engine, hasLocal) ==
    IF forceRemote /\ engine THEN "remote"
    ELSE IF hasLocal THEN "local"
    ELSE IF engine THEN "remote"
    ELSE "nowhere"

\* getPrimitive / getArray / getObject up to the first await, lines 171-233
CallGet(kind, key, isGlobal, forceRemote, parseType) ==
    /\ NoReady /\ Idle
    /\ LET o    == [IdleOp EXCEPT !.kind = kind, !.key = key, !.isGlobal = isGlobal,
                                  !.forceRemote = forceRemote, !.parseType = parseType]
           skey == StoreKey(key, isGlobal)
           way  == Route(forceRemote, hasEngine, Has(localCache, skey))
       IN  IF ~ArgDefined(JsKey(key))
           THEN /\ UNCHANGED mainQ
                /\ op' = Finish(o, Failed("InvalidArgument"))
           ELSE IF way = "remote"
           THEN /\ mainQ' = Append(mainQ, USER)
                /\ op' = [o EXCEPT !.pc = "fetch"]
           ELSE /\ UNCHANGED mainQ
                /\ op' = Finish(o, IF way = "local"
                                   THEN LocalResult(kind, localCache[skey])
                                   ELSE Got(Nothing))
    /\ UNCHANGED <<hasEngine, disposed, instVars, subVars, serverVars, inQ, handlers, extLeft,
                   tasks, addOn>>

\* getAsync / hgetallAsync is answered: the getter returns
GetReply ==
    /\ NoReady
    /\ op.pc = "fetch"
    /\ mainQ # <<>> /\ Head(mainQ) = USER
    /\ mainQ' = Tail(mainQ)
    /\ op' = Finish(op, RemoteResult(op.kind, remote[SKey], op.parseType))
    /\ UNCHANGED <<hasEngine, disposed, instVars, subVars, serverVars, inQ, handlers, extLeft,
                   tasks, addOn>>

\* delete of an exact key up to its first await, lines 106-114 and 454-458.
\* The guard looks at the key after the prefix has been put before it.
CallDelete(key, isGlobal) ==
    /\ NoReady /\ Idle
    /\ LET o    == [IdleOp EXCEPT !.kind = "delete", !.key = key, !.isGlobal = isGlobal]
           skey == StoreKey(key, isGlobal)
       IN  IF ~ArgDefined(JsKey(skey))
           THEN /\ op' = Finish(o, Failed("InvalidArgument"))
                /\ UNCHANGED <<localCache, cacheExps, subs, inQ, mainQ>>
           ELSE
           /\ localCache' = DeleteLocalCache(localCache, skey)
           /\ cacheExps' = DeleteLocalExps(cacheExps, skey)
           /\ IF engineSub
              THEN /\ subs' = subs \ {Channel(skey)}
                   /\ inQ' = Append(inQ, Reply(skey, "unsubscribe"))
                   /\ op' = [o EXCEPT !.pc = "unsub"]
                   /\ UNCHANGED mainQ
              ELSE /\ UNCHANGED <<subs, inQ>>
                   /\ IF hasEngine
                      THEN /\ mainQ' = Append(mainQ, USER)
                           /\ op' = [o EXCEPT !.pc = "del"]
                      ELSE \* this._engine is undefined: delAsync of undefined
                           /\ UNCHANGED mainQ
                           /\ op' = Finish(o, Failed("TypeError"))
    /\ UNCHANGED <<hasEngine, disposed, orphans, cacheLocks, engineSub, handlerKey,
                   conn, serverVars, handlers, extLeft, tasks, addOn>>

\* sub.unsubscribeAsync() is answered; this._engine.delAsync(key) is sent
DeleteUnsubscribed ==
    /\ NoReady
    /\ op.pc = "unsub"
    /\ inQ # <<>> /\ IsReply(Head(inQ))
    /\ inQ' = Tail(inQ)
    /\ mainQ' = Append(mainQ, USER)
    /\ op' = [op EXCEPT !.pc = "del"]
    /\ UNCHANGED <<hasEngine, disposed, instVars, subVars, serverVars, handlers, extLeft,
                   tasks, addOn>>

\* delAsync is answered: delete returns
DeleteReply ==
    /\ NoReady
    /\ op.pc = "del"
    /\ mainQ # <<>> /\ Head(mainQ) = USER
    /\ mainQ' = Tail(mainQ)
    /\ inQ' = inQ \o Publish(SKey, IF remote[SKey] # Nil THEN <<"del">> ELSE <<>>)
    /\ remote' = [remote EXCEPT ![SKey] = Nil]
    /\ rexp' = [rexp EXCEPT ![SKey] = NoTtl]
    /\ op' = Finish(op, Ok)
    /\ UNCHANGED <<hasEngine, disposed, instVars, subVars, handlers, extLeft, tasks, addOn>>

\* A pattern "*suffix": the keys that end with the suffix. For such patterns
\* the server's MATCH and the regular expression of _deleteLocalPattern agree.
Matches(pattern, key) ==
    LET suffix == Tail(pattern)
    IN  /\ Len(key) >= Len(suffix)
        /\ SubSeq(key, Len(key) - Len(suffix) + 1, Len(key)) = suffix

\* The pieces of a key or pattern that are one character long
Chars == {"a", "b", "c", "x", ".", "*", "?"}

\* key.match(new RegExp('^' + pattern + '$')) after "*" became "(.*)" and "?"
\* became "(.?)", lines 143-145: every other piece of the pattern goes into
\* the regular expression as it is, so a "." is the regular expression's
\* "any one character" and the remaining pieces are literals.
RECURSIVE RegexMatches(_, _)
RegexMatches(pattern, key) ==
    IF pattern = <<>> THEN key = <<>>
    ELSE LET c    == Head(pattern)
             rest == Tail(pattern)
         IN  IF c = "*"
             THEN \E i \in 0..Len(key) : RegexMatches(rest, SubSeq(key, i + 1, Len(key)))
             ELSE IF c = "?"
             THEN \/ RegexMatches(rest, key)
                  \/ key # <<>> /\ Head(key) \in Chars /\ RegexMatches(rest, Tail(key))
             ELSE IF c = "."
             THEN key # <<>> /\ Head(key) \in Chars /\ RegexMatches(rest, Tail(key))
             ELSE key # <<>> /\ Head(key) = c /\ RegexMatches(rest, Tail(key))

\* _deleteLocalPattern: the entries whose key does not match are kept
DeleteLocalPattern(cache, pattern) ==
    [k \in {x \in DOMAIN cache : ~RegexMatches(pattern, x)} |-> cache[k]]

\* The keys of the server that match the pattern
RemoteMatches(pattern) == {k \in AllKeys : remote[k] # Nil /\ Matches(pattern, k)}

\* delete with isPattern, lines 107-109 and 117-131, up to the first SCAN
CallDeletePattern(pattern) ==
    /\ NoReady /\ Idle
    /\ LET o == [IdleOp EXCEPT !.kind = "deletePattern", !.key = pattern]
       IN  /\ localCache' = DeleteLocalPattern(localCache, pattern)
           /\ IF hasEngine
              THEN /\ mainQ' = Append(mainQ, USER)
                   /\ op' = [o EXCEPT !.pc = "scan"]
              ELSE /\ UNCHANGED mainQ
                   /\ op' = Finish(o, Ok)
    /\ UNCHANGED <<hasEngine, disposed, cacheExps, orphans, cacheLocks, subVars, serverVars,
                   inQ, handlers, extLeft, tasks, addOn>>

\* A variant of the end marker: the cursor of the first call
EndCursorEmpty == ""

\* END_CURSOR, line 123
END_CURSOR == "0"

\* A SCAN is answered with some matching keys (keys of earlier replies may
\* come again) and a cursor; the server's cursor is "0" only when every
\* matching key has been returned. Lines 130-139: the loop goes on with the
\* cursor of the reply until that is END_CURSOR; then the accumulated keys
\* are deleted if the last reply had keys.
ScanReply(batch, cursor) ==
    /\ NoReady
    /\ op.pc = "scan"
    /\ mainQ # <<>> /\ Head(mainQ) = USER
    /\ batch \subseteq RemoteMatches(op.key)
    /\ cursor = "0" => RemoteMatches(op.key) \subseteq op.keySet \cup batch
    /\ LET o == [op EXCEPT !.keySet = op.keySet \cup batch, !.cursor = cursor]
       IN  IF cursor # END_CURSOR
           THEN /\ mainQ' = Append(Tail(mainQ), USER)
                /\ op' = o
           ELSE IF batch # {}
           THEN /\ mainQ' = Append(Tail(mainQ), USER)
                /\ op' = [o EXCEPT !.pc = "pdel"]
           ELSE /\ mainQ' = Tail(mainQ)
                /\ op' = Finish(o, Ok)
    /\ UNCHANGED <<hasEngine, disposed, instVars, subVars, serverVars, inQ, handlers, extLeft,
                   tasks, addOn>>

\* The keyspace messages of DEL key1 key2 ..., for the subscriber
RECURSIVE PublishDel(_)
PublishDel(keys) ==
    IF keys = {} THEN <<>>
    ELSE LET k == CHOOSE x \in keys : TRUE
         IN  Publish(k, IF remote[k] # Nil THEN <<"del">> ELSE <<>>)
             \o PublishDel(keys \ {k})

\* delAsync(...keySet) is answered: the pattern delete returns
PatternDelReply ==
    /\ NoReady
    /\ op.pc = "pdel"
    /\ mainQ # <<>> /\ Head(mainQ) = USER
    /\ mainQ' = Tail(mainQ)
    /\ inQ' = inQ \o PublishDel(op.keySet)
    /\ remote' = [k \in AllKeys |-> IF k \in op.keySet THEN Nil ELSE remote[k]]
    /\ rexp' = [k \in AllKeys |-> IF k \in op.keySet THEN NoTtl ELSE rexp[k]]
    /\ op' = Finish(op, Ok)
    /\ UNCHANGED <<hasEngine, disposed, instVars, subVars, handlers, extLeft, tasks, addOn>>

\* ---------------------------------------------------------------- dispose

\* The timers of the tokens in exps, once the map that held the tokens is gone
Untracked(exps) == {[k |-> key, rem |-> exps[key]] : key \in DOMAIN exps}

\* Line 100: `this._engine = this._localCache = this._cacheExps = null`. No
\* timer is cleared and _cacheLocks is left as it is.
NullFields ==
    /\ hasEngine' = FALSE
    /\ disposed' = TRUE
    /\ localCache' = Empty
    /\ cacheExps' = Empty
    /\ orphans' = orphans \cup Untracked(cacheExps)
    /\ UNCHANGED cacheLocks

DisposeFields(o) ==
    /\ NullFields
    /\ op' = Finish(o, Ok)

\* dispose up to `await Promise.all(tasks)`, lines 90-99: quit on the primary
\* connection and on the subscription connection, whose field is set to null
\* at once. The server drops the subscriptions of a connection that quits;
\* the answer of the primary connection stands for both answers. With no
\* connection the await resumes before any timer or message.
CallDispose ==
    /\ NoReady /\ Idle
    /\ LET o == [IdleOp EXCEPT !.kind = "dispose"]
       IN  /\ engineSub' = FALSE
           /\ conn' = IF engineSub THEN QuitSub(conn) ELSE conn
           /\ subs' = IF engineSub THEN {} ELSE subs
           /\ IF hasEngine
              THEN /\ mainQ' = Append(mainQ, USER)
                   /\ op' = [o EXCEPT !.pc = "quit"]
                   /\ UNCHANGED <<hasEngine, disposed, instVars>>
              ELSE /\ UNCHANGED mainQ
                   /\ DisposeFields(o)
    /\ UNCHANGED <<handlerKey, serverVars, inQ, handlers, extLeft, tasks, addOn>>

\* quitAsync is answered: dispose sets the fields to null and returns
DisposeReply ==
    /\ NoReady
    /\ op.pc = "quit"
    /\ mainQ # <<>> /\ Head(mainQ) = USER
    /\ mainQ' = Tail(mainQ)
    /\ DisposeFields(op)
    /\ UNCHANGED <<subVars, serverVars, inQ, handlers, extLeft, tasks, addOn>>

\* ------------------------------------------------------------ CacheAddOn

DEFAULT_HOST == "localhost"
DEFAULT_PORT == 6379

Scalar(x) == [arr |-> FALSE, items |-> <<x>>]

\* The elements of an array setting, each a string or number
Elems(value) == [i \in 1..Len(value.items) |-> Scalar(value.items[i])]

\* _padArray, lines 136-142
PadArray(arr, newLength, value) ==
    IF Len(arr) >= newLength THEN arr
    ELSE arr \o [i \in 1..(newLength - Len(arr)) |-> value]

\* _getHosts, lines 104-116: an array of another length than nConn is padded
\* with the default; anything else is repeated nConn times
GetHosts(value, nConn) ==
    IF value.arr /\ Len(value.items) # nConn
    THEN PadArray(Elems(value), nConn, Scalar(DEFAULT_HOST))
    ELSE PadArray(<<>>, nConn, value)

\* _getPorts, lines 118-130
GetPorts(value, nConn) ==
    IF value.arr /\ Len(value.items) # nConn
    THEN PadArray(Elems(value), nConn, Scalar(DEFAULT_PORT))
    ELSE PadArray(<<>>, nConn, value)

\* _buildConnDetails, lines 79-102; <<>> stands for Maybe.Nothing
BuildConnDetails(nConn, hostSetting, portSetting) ==
    LET hosts == GetHosts(hostSetting, nConn)
        ports == GetPorts(portSetting, nConn)
    IN  [i \in 1..nConn |-> [host |-> hosts[i], port |-> ports[i]]]

\* init, lines 34-63: without SERVICE_SLUG it rejects; otherwise the details
\* go to the provider as cluster (more than one), as single (one) or not at
\* all, and the provider is constructed (RedisCacheProvider.ts 63-81)
AddOnInit ==
    /\ addOn.pc = "none"
    /\ IF ~addOn.slug
       THEN /\ addOn' = [addOn EXCEPT !.pc = "rejected"]
            /\ UNCHANGED <<hasEngine, conn>>
       ELSE LET details == BuildConnDetails(addOn.nConn, addOn.hosts, addOn.ports)
                mode    == IF Len(details) > 1 THEN "cluster"
                           ELSE IF Len(details) > 0 THEN "single" ELSE "local"
                kept    == IF mode = "cluster" THEN details
                           ELSE IF mode = "single" THEN <<details[1]>> ELSE <<>>
            IN  /\ addOn' = [addOn EXCEPT !.pc = "ready", !.mode = mode, !.details = kept]
                /\ hasEngine' = (mode # "local")
                /\ conn' = [conn EXCEPT !.cluster = (mode = "cluster")]
    /\ UNCHANGED <<disposed, instVars, engineSub, handlerKey, subs, serverVars, inQ,
                   mainQ, handlers, op, extLeft, tasks>>

\* ------------------------------------------------- overlapping callers

TaskFree(t) == tasks[t].pc \in {"idle", "done"}
NoDispose   == \A u \in TaskIds : tasks[u].kind # "dispose"

TaskAt(t, kind, key, pc) ==
    [tasks EXCEPT ![t] = [kind |-> kind, key |-> key, pc |-> pc, res |-> NoResult]]
TaskDone(ts, t, res) == [ts EXCEPT ![t].pc = "done", ![t].res = res]

\* A variant of _syncOn that stores the new connection after its await
SubAssignedLate == FALSE

\* Lines 419 and 421: _engineSub is assigned where the connection is made,
\* before the first await of _syncOn
SubAssigned == TRUE

\* A caller calls setPrimitive(key, 'a', {level: CacheLevel.BOTH}), lines
\* 240-262, while the other caller may be in the middle of its own call
TaskSet(t, key) ==
    /\ NoReady
    /\ TaskFree(t) /\ ~Disposed /\ NoDispose
    /\ localCache' = Put(localCache, RealKey(key), Str("a"))
    /\ IF hasEngine
       THEN /\ mainQ' = Append(mainQ, t)
            /\ tasks' = TaskAt(t, "set", key, "exec")
       ELSE /\ UNCHANGED mainQ
            /\ tasks' = TaskDone(TaskAt(t, "set", key, "exec"), t, Ok)
    /\ UNCHANGED <<hasEngine, disposed, cacheExps, orphans, cacheLocks, subVars,
                   serverVars, inQ, handlers, op, extLeft, addOn>>

\* The caller's multi.execAsync() is answered; lines 265-266 and _syncOn up to
\* its first await: with no _engineSub the connection is made and CONFIG SET
\* is sent on the primary connection (415-425), otherwise SUBSCRIBE is sent
TaskExec(t) ==
    /\ NoReady
    /\ tasks[t].pc = "exec"
    /\ mainQ # <<>> /\ Head(mainQ) = t
    /\ LET skey   == RealKey(tasks[t].key)
           rv     == WireValue("setPrimitive", Str("a"))
           events == Publish(skey, MultiEvents(skey, rv, 0))
       IN  /\ remote' = [remote EXCEPT ![skey] = rv]
           /\ rexp' = [rexp EXCEPT ![skey] = NoTtl]
           /\ IF ~hasEngine
              THEN /\ mainQ' = Tail(mainQ)
                   /\ inQ' = inQ \o events
                   /\ tasks' = TaskDone(tasks, t, Ok)
                   /\ UNCHANGED subVars
              ELSE IF ~engineSub
              THEN /\ engineSub' = SubAssigned
                   /\ conn' = ConnectSub(conn)
                   /\ mainQ' = Append(Tail(mainQ), t)
                   /\ inQ' = inQ \o events
                   /\ tasks' = [tasks EXCEPT ![t].pc = "config"]
                   /\ UNCHANGED <<handlerKey, subs>>
              ELSE /\ mainQ' = Tail(mainQ)
                   /\ subs' = subs \cup {Channel(skey)}
                   /\ inQ' = inQ \o events \o <<Reply(skey, "subscribe")>>
                   /\ tasks' = [tasks EXCEPT ![t].pc = "subscribe"]
                   /\ UNCHANGED <<engineSub, handlerKey, conn>>
    /\ UNCHANGED <<hasEngine, disposed, instVars, handlers, op, extLeft, addOn>>

\* CONFIG SET is answered, lines 425-451: the handler is installed on the
\* connection this call made and SUBSCRIBE is sent on it. If dispose has quit
\* that connection in the meantime, SUBSCRIBE is rejected.
TaskConfig(t) ==
    /\ NoReady
    /\ tasks[t].pc = "config"
    /\ mainQ # <<>> /\ Head(mainQ) = t
    /\ mainQ' = Tail(mainQ)
    /\ LET skey == RealKey(tasks[t].key)
       IN  IF engineSub \/ ~SubAssigned
           THEN /\ engineSub' = TRUE
                /\ conn' = OnMessage(conn)
                /\ handlerKey' = IF conn.listeners = 0 /\ ~Disposed
                                 THEN skey ELSE handlerKey
                /\ subs' = subs \cup {Channel(skey)}
                /\ inQ' = Append(inQ, Reply(skey, "subscribe"))
                /\ tasks' = [tasks EXCEPT ![t].pc = "subscribe"]
           ELSE /\ tasks' = TaskDone(tasks, t, Failed("AbortError"))
                /\ UNCHANGED <<subVars, inQ>>
    /\ UNCHANGED <<hasEngine, disposed, instVars, serverVars, handlers, op, extLeft,
                   addOn>>

\* CONFIG SET was sent after dispose's QUIT on the same connection: it is
\* rejected, the await on line 425 throws and the setter fails
TaskConfigFails(t) ==
    /\ NoReady
    /\ tasks[t].pc = "config"
    /\ mainQ # <<>> /\ Head(mainQ) = t
    /\ Disposed
    /\ mainQ' = Tail(mainQ)
    /\ tasks' = TaskDone(tasks, t, Failed("AbortError"))
    /\ UNCHANGED <<hasEngine, disposed, instVars, subVars, serverVars, inQ, handlers,
                   op, extLeft, addOn>>

\* SUBSCRIBE is answered, line 451: the setter returns
TaskSubscribed(t) ==
    /\ NoReady
    /\ tasks[t].pc = "subscribe"
    /\ inQ # <<>> /\ IsReply(Head(inQ))
    /\ Head(inQ).ch = Channel(RealKey(tasks[t].key))
    /\ inQ' = Tail(inQ)
    /\ tasks' = TaskDone(tasks, t, Ok)
    /\ UNCHANGED <<hasEngine, disposed, instVars, subVars, serverVars, mainQ, handlers,
                   op, extLeft, addOn>>

\* A message arrives on a subscription connection that has no handler yet,
\* or on one whose instance is disposed (the handler then fails on the null
\* fields): it changes nothing in the stores
TaskDrop ==
    /\ NoReady
    /\ inQ # <<>> /\ ~IsReply(Head(inQ))
    /\ conn.listeners = 0 \/ Disposed
    /\ inQ' = Tail(inQ)
    /\ UNCHANGED <<hasEngine, disposed, instVars, subVars, serverVars, mainQ, handlers,
                   op, extLeft, tasks, addOn>>

\* A caller calls dispose, lines 90-99, whatever the other caller is doing
TaskDispose(t) ==
    /\ NoReady
    /\ TaskFree(t) /\ ~Disposed /\ NoDispose
    /\ engineSub' = FALSE
    /\ conn' = IF engineSub THEN QuitSub(conn) ELSE conn
    /\ subs' = IF engineSub THEN {} ELSE subs
    /\ IF hasEngine
       THEN /\ mainQ' = Append(mainQ, t)
            /\ tasks' = TaskAt(t, "dispose", <<>>, "quit")
            /\ UNCHANGED <<hasEngine, disposed, instVars>>
       ELSE /\ UNCHANGED mainQ
            /\ tasks' = TaskDone(TaskAt(t, "dispose", <<>>, "quit"), t, Ok)
            /\ NullFields
    /\ UNCHANGED <<handlerKey, serverVars, inQ, handlers, op, extLeft, addOn>>

\* quitAsync is answered, line 100
TaskDisposeReply(t) ==
    /\ NoReady
    /\ tasks[t].pc = "quit"
    /\ mainQ # <<>> /\ Head(mainQ) = t
    /\ mainQ' = Tail(mainQ)
    /\ tasks' = TaskDone(tasks, t, Ok)
    /\ NullFields
    /\ UNCHANGED <<subVars, serverVars, inQ, handlers, op, extLeft, addOn>>

\* A setter on a disposed instance, lines 240-267 and 289-314 with _engine
\* and _localCache null: the guards, then `this._localCache[key] = value`
\* throws a TypeError when the level has the LOCAL bit; without it both
\* `this._hasEngine &&` blocks are skipped and the setter returns.
DisposedSet(kind, key, isGlobal, value, level) ==
    /\ NoReady
    /\ op.pc \in {"idle", "done"} /\ Disposed
    /\ LET o   == [IdleOp EXCEPT !.kind = kind, !.key = key, !.isGlobal = isGlobal,
                                 !.val = value, !.level = level]
           lvl == DefaultLevel(level)
       IN  op' = Finish(o, IF ~ArgDefined(JsKey(key)) \/ ~ArgDefined(value)
                           THEN Failed("InvalidArgument")
                           ELSE IF IncludeBit(lvl, LEVEL_LOCAL)
                           THEN Failed("TypeError")
                           ELSE Ok)
    /\ UNCHANGED <<hasEngine, disposed, instVars, subVars, serverVars, inQ, mainQ,
                   handlers, extLeft, tasks, addOn>>

\* A getter on a disposed instance, lines 171-187: `forceRemote &&
\* this._hasEngine` is false and `this._localCache.hasOwnProperty` throws
DisposedGet(kind, key, isGlobal, forceRemote) ==
    /\ NoReady
    /\ op.pc \in {"idle", "done"} /\ Disposed
    /\ LET o == [IdleOp EXCEPT !.kind = kind, !.key = key, !.isGlobal = isGlobal,
                               !.forceRemote = forceRemote]
       IN  op' = Finish(o, IF ~ArgDefined(JsKey(key))
                           THEN Failed("InvalidArgument")
                           ELSE Failed("TypeError"))
    /\ UNCHANGED <<hasEngine, disposed, instVars, subVars, serverVars, inQ, mainQ,
                   handlers, extLeft, tasks, addOn>>

\* delete on a disposed instance, lines 106-115 and 142-153: Object.entries
\* of null throws for a pattern, `delete this._localCache[key]` otherwise
DisposedDelete(key, isGlobal, isPattern) ==
    /\ NoReady
    /\ op.pc \in {"idle", "done"} /\ Disposed
    /\ LET o == [IdleOp EXCEPT !.kind = IF isPattern THEN "deletePattern" ELSE "delete",
                               !.key = key, !.isGlobal = isGlobal]
       IN  op' = Finish(o, IF ~isPattern /\ ~ArgDefined(JsKey(StoreKey(key, isGlobal)))
                           THEN Failed("InvalidArgument")
                           ELSE Failed("TypeError"))
    /\ UNCHANGED <<hasEngine, disposed, instVars, subVars, serverVars, inQ, mainQ,
                   handlers, extLeft, tasks, addOn>>

\* ------------------------------------------------------ other clients

\* Messages the setter that awaits its MULTI may still publish
Reserved == IF op.pc = "exec" THEN MaxEvents(SKey, op.dur) ELSE 0

\* Another client runs SET key text
ExtSet(key, text) ==
    /\ NoReady
    /\ extLeft[key] > 0
    /\ Room(Len(Publish(key, <<"set">>)) + Reserved)
    /\ extLeft' = [extLeft EXCEPT ![key] = @ - 1]
    /\ remote' = [remote EXCEPT ![key] = RString(text)]
    /\ rexp' = [rexp EXCEPT ![key] = NoTtl]
    /\ inQ' = inQ \o Publish(key, <<"set">>)
    /\ UNCHANGED <<hasEngine, disposed, instVars, subVars, mainQ, handlers, op, tasks, addOn>>

\* Another client runs MULTI / DEL key / HMSET key fields / EXEC
ExtSetObject(key, fields) ==
    /\ NoReady
    /\ extLeft[key] > 0
    /\ Room(Len(Publish(key, MultiEvents(key, RHash(fields), 0))) + Reserved)
    /\ extLeft' = [extLeft EXCEPT ![key] = @ - 1]
    /\ remote' = [remote EXCEPT ![key] = RHash(fields)]
    /\ rexp' = [rexp EXCEPT ![key] = NoTtl]
    /\ inQ' = inQ \o Publish(key, MultiEvents(key, RHash(fields), 0))
    /\ UNCHANGED <<hasEngine, disposed, instVars, subVars, mainQ, handlers, op, tasks, addOn>>

\* Another instance, called name, on the same server runs the MULTI of a
\* setter at level REMOTE (lines 256-264)
OtherSet(name, kind, key, isGlobal, value) ==
    LET skey   == IF isGlobal THEN key ELSE RealKeyOf(name, key)
        rv     == WireValue(kind, StoredValue(kind, value))
        events == Publish(skey, MultiEvents(skey, rv, 0))
    IN  /\ NoReady
        /\ extLeft[skey] > 0
        /\ Room(Len(events) + Reserved)
        /\ extLeft' = [extLeft EXCEPT ![skey] = @ - 1]
        /\ remote' = [remote EXCEPT ![skey] = rv]
        /\ rexp' = [rexp EXCEPT ![skey] = NoTtl]
        /\ inQ' = inQ \o events
        /\ UNCHANGED <<hasEngine, disposed, instVars, subVars, mainQ, handlers, op, tasks, addOn>>

\* ------------------------------------------------------------ time

\* A second passes, once every timer and time to live that is due has acted
Tick ==
    /\ NoReady
    /\ \A k \in DOMAIN cacheExps : cacheExps[k] > 0
    /\ \A t \in orphans : t.rem > 0
    /\ \A k \in AllKeys : rexp[k] # 0
    /\ \/ cacheExps # Empty
       \/ orphans # {}
       \/ \E k \in AllKeys : rexp[k] > 0
       \/ op.pc = "done" /\ op.since <= MaxDur
    /\ cacheExps' = [k \in DOMAIN cacheExps |-> cacheExps[k] - 1]
    /\ orphans' = {[k |-> t.k, rem |-> t.rem - 1] : t \in orphans}
    /\ rexp' = [k \in AllKeys |-> IF rexp[k] > 0 THEN rexp[k] - 1 ELSE rexp[k]]
    /\ op' = IF op.pc = "done" /\ op.since <= MaxDur
             THEN [op EXCEPT !.since = @ + 1] ELSE op
    /\ UNCHANGED <<hasEngine, disposed, localCache, cacheLocks, subVars, remote, inQ, mainQ,
                   handlers, extLeft, tasks, addOn>>

\* The timer whose token _cacheExps holds fires: () => this._deleteLocal(key)
TimerFire(key) ==
    /\ NoReady
    /\ Has(cacheExps, key) /\ cacheExps[key] = 0
    /\ localCache' = DeleteLocalCache(localCache, key)
    /\ cacheExps' = DeleteLocalExps(cacheExps, key)
    /\ UNCHANGED <<hasEngine, disposed, orphans, cacheLocks, subVars, serverVars, inQ, mainQ,
                   handlers, op, extLeft, tasks, addOn>>

\* A timer whose token was overwritten or dropped fires: the same callback.
\* On a disposed instance `delete this._localCache[key]` throws a TypeError
\* before anything is changed.
OrphanFire(t) ==
    /\ NoReady
    /\ t \in orphans /\ t.rem = 0
    /\ orphans' = orphans \ {t}
    /\ IF Disposed
       THEN UNCHANGED <<localCache, cacheExps>>
       ELSE /\ localCache' = DeleteLocalCache(localCache, t.k)
            /\ cacheExps' = DeleteLocalExps(cacheExps, t.k)
    /\ UNCHANGED <<hasEngine, disposed, cacheLocks, subVars, serverVars, inQ, mainQ,
                   handlers, op, extLeft, tasks, addOn>>

\* The server removes a key whose time to live has run out
RemoteExpire(key) ==
    /\ NoReady
    /\ rexp[key] = 0
    /\ Room(Len(Publish(key, <<"expired">>)) + Reserved)
    /\ remote' = [remote EXCEPT ![key] = Nil]
    /\ rexp' = [rexp EXCEPT ![key] = NoTtl]
    /\ inQ' = inQ \o Publish(key, <<"expired">>)
    /\ UNCHANGED <<hasEngine, disposed, instVars, subVars, mainQ, handlers, op, extLeft,
                   tasks, addOn>>

\* ------------------------------------------------------------ behaviours

InitRemote == Init /\ hasEngine
InitLocal  == Init /\ ~hasEngine

Levels    == {0, LEVEL_LOCAL, LEVEL_REMOTE, LEVEL_BOTH}
Durations == 0..MaxDur

Prims     == {Str("a"), Num("7")}
Arrays    == {Arr("[7]")}
Objects   == {Obj([age |-> Num("7")])}
ExtTexts  == {"b"}
ExtHashes == {[age |-> "b"]}

SetKinds == {"setPrimitive", "setArray", "setObject"}
GetKinds == {"getPrimitive", "getArray", "getObject"}

ValuesOf(kind) ==
    IF kind = "setPrimitive" THEN Prims
    ELSE IF kind = "setArray" THEN Arrays
    ELSE Objects

HandlerStep ==
    \/ Deliver
    \/ \E h \in HandlerIds : HandlerResume(h)
    \/ \E h \in HandlerIds : HandlerReply(h)

\* One instance in either mode, one key, every setter, getter and level, and
\* another client writing the key.
Next ==
    \/ \E kind \in SetKinds, level \in Levels :
         \E value \in ValuesOf(kind) \cup {Null} :
            CallSet(kind, K1, FALSE, value, level, 0)
    \/ \E kind \in GetKinds, force \in BOOLEAN : CallGet(kind, K1, FALSE, force, TRUE)
    \/ CallDelete(K1, FALSE)
    \/ SetExec
    \/ SetSubscribed
    \/ GetReply
    \/ DeleteUnsubscribed
    \/ DeleteReply
    \/ HandlerStep
    \/ \E text \in ExtTexts : ExtSet(RealKey(K1), text)
    \/ \E fields \in ExtHashes : ExtSetObject(RealKey(K1), fields)

Spec == Init /\ [][Next]_vars

\* An instance with a remote client and no other client of the server: the
\* only keyspace messages are those of the instance's own writes.
NextSolo ==
    \/ \E kind \in {"setPrimitive", "setObject"}, key \in UserKeys,
          level \in {LEVEL_LOCAL, LEVEL_REMOTE, LEVEL_BOTH} :
         \E value \in ValuesOf(kind) : CallSet(kind, key, FALSE, value, level, 0)
    \/ \E key \in UserKeys : CallDelete(key, FALSE)
    \/ SetExec
    \/ SetSubscribed
    \/ DeleteUnsubscribed
    \/ DeleteReply
    \/ HandlerStep

SpecSolo == InitRemote /\ [][NextSolo]_vars

\* An instance built without single or cluster.
NextLocal ==
    \/ \E kind \in SetKinds, key \in UserKeys, level \in Levels :
         \E value \in ValuesOf(kind) : CallSet(kind, key, FALSE, value, level, 0)
    \/ \E kind \in GetKinds, key \in UserKeys, force \in BOOLEAN :
         CallGet(kind, key, FALSE, force, TRUE)
    \/ \E key \in UserKeys : CallDelete(key, FALSE)

SpecLocal == InitLocal /\ [][NextLocal]_vars

\* A local-only instance whose keys are spelled out character by character,
\* and the patterns it deletes by.
GlobKeys     == {<<"a", ".", "c">>, <<"a", "b", "c">>, <<"a", "c">>}
GlobPatterns == {<<"a", ".", "c">>, <<"a", "?", "c">>, <<"*", "b", "*">>,
                 <<"*", SEP, "a", "?", "c">>, <<"*">>}

NextGlob ==
    \/ \E key \in GlobKeys, isGlobal \in BOOLEAN :
         CallSet("prim", key, isGlobal, CHOOSE value \in ValuesOf("prim") : TRUE,
                 LEVEL_LOCAL, 0)
    \/ \E pattern \in GlobPatterns : CallDeletePattern(pattern)

SpecGlob == InitLocal /\ [][NextGlob]_vars

\* An instance that sets keys at level BOTH while another client writes them.
\* The server answers every call and delivers every message.
NextSync ==
    \/ \E kind \in {"setPrimitive", "setObject"}, key \in UserKeys :
         \E value \in ValuesOf(kind) : CallSet(kind, key, FALSE, value, LEVEL_BOTH, 0)
    \/ SetExec
    \/ SetSubscribed
    \/ HandlerStep
    \/ \E key \in UserKeys, text \in ExtTexts : ExtSet(RealKey(key), text)
    \/ \E key \in UserKeys, fields \in ExtHashes : ExtSetObject(RealKey(key), fields)

SpecSync ==
    /\ InitRemote
    /\ [][NextSync]_vars
    /\ WF_vars(SetExec)
    /\ WF_vars(SetSubscribed)
    /\ WF_vars(Deliver)
    /\ \A h \in HandlerIds : WF_vars(HandlerResume(h)) /\ WF_vars(HandlerReply(h))

\* Durations and the passing of time, on an instance that never subscribes.
NextTime ==
    \/ \E key \in UserKeys, level \in {0, LEVEL_LOCAL, LEVEL_REMOTE},
          value \in {Str("a")}, duration \in Durations :
         CallSet("setPrimitive", key, FALSE, value, level, duration)
    \/ \E key \in UserKeys, force \in BOOLEAN :
         CallGet("getPrimitive", key, FALSE, force, TRUE)
    \/ \E key \in UserKeys : CallDelete(key, FALSE)
    \/ SetExec
    \/ GetReply
    \/ DeleteReply
    \/ Tick
    \/ \E key \in AllKeys : TimerFire(key)
    \/ \E key \in AllKeys, rem \in 0..MaxDur : OrphanFire([k |-> key, rem |-> rem])
    \/ \E key \in AllKeys : RemoteExpire(key)

SpecTime == Init /\ [][NextTime]_vars

\* Durations on a key the instance keeps in sync: BOTH-level sets of one
\* key, the keyspace messages of its own writes and of the server's expiry.
NextTtl ==
    \/ \E duration \in Durations :
         CallSet("setPrimitive", K1, FALSE, Str("a"), LEVEL_BOTH, duration)
    \/ SetExec
    \/ SetSubscribed
    \/ HandlerStep
    \/ Tick
    \/ TimerFire(RealKey(K1))
    \/ \E rem \in 0..MaxDur : OrphanFire([k |-> RealKey(K1), rem |-> rem])
    \/ RemoteExpire(RealKey(K1))

SpecTtl == InitRemote /\ [][NextTtl]_vars

\* Two instances with different names on one server: the other one sets
\* non-global keys, this one reads and deletes non-global keys.
NextNames ==
    \/ \E name \in OtherNames, key \in CallKeys :
         OtherSet(name, "setPrimitive", key, FALSE, Str("b"))
    \/ \E key \in CallKeys, force \in BOOLEAN :
         CallGet("getPrimitive", key, FALSE, force, TRUE)
    \/ \E key \in CallKeys : CallDelete(key, FALSE)
    \/ GetReply
    \/ DeleteReply

SpecNames == InitRemote /\ [][NextNames]_vars

\* Durations on an instance that is disposed in the end.
NextDispose ==
    \/ \E key \in UserKeys, level \in {LEVEL_LOCAL, LEVEL_REMOTE}, duration \in Durations :
         CallSet("setPrimitive", key, FALSE, Str("a"), level, duration)
    \/ \E key \in UserKeys : CallDelete(key, FALSE)
    \/ SetExec
    \/ DeleteReply
    \/ CallDispose
    \/ DisposeReply
    \/ Tick
    \/ \E key \in AllKeys : TimerFire(key)
    \/ \E key \in AllKeys, rem \in 0..MaxDur : OrphanFire([k |-> key, rem |-> rem])
    \/ \E key \in AllKeys : RemoteExpire(key)

SpecDispose == Init /\ [][NextDispose]_vars

\* An instance that is used, disposed of, and called again.
NextDead ==
    \/ \E key \in UserKeys, level \in {LEVEL_LOCAL, LEVEL_REMOTE} :
         CallSet("setPrimitive", key, FALSE, Str("a"), level, 0)
    \/ SetExec
    \/ CallDispose
    \/ DisposeReply
    \/ \E kind \in SetKinds, key \in UserKeys, isGlobal \in BOOLEAN, level \in Levels :
         DisposedSet(kind, key, isGlobal, CHOOSE value \in ValuesOf(kind) : TRUE, level)
    \/ \E kind \in GetKinds, key \in UserKeys, isGlobal \in BOOLEAN, force \in BOOLEAN :
         DisposedGet(kind, key, isGlobal, force)
    \/ \E key \in UserKeys, isGlobal \in BOOLEAN : DisposedDelete(key, isGlobal, FALSE)
    \/ \E pattern \in {<<"*", "k1">>, <<"*">>} : DisposedDelete(pattern, FALSE, TRUE)

SpecDead == Init /\ [][NextDead]_vars

\* CacheAddOn.init under every setting: CACHE_NUM_CONN from 0 to MaxConn,
\* hosts and ports given as one value or as an array shorter than, as long
\* as or longer than that.
HostNames == <<"h1", "h2", "h3", "h4">>
PortBase  == DEFAULT_PORT + 1

HostSettings ==
    {Scalar(HostNames[1])}
    \cup {[arr |-> TRUE, items |-> SubSeq(HostNames, 1, n)] : n \in 0..(MaxConn + 1)}
PortSettings ==
    {Scalar(PortBase)}
    \cup {[arr |-> TRUE, items |-> [i \in 1..n |-> PortBase + i - 1]] : n \in 0..(MaxConn + 1)}

InitAddOn ==
    /\ \E slug \in BOOLEAN, nConn \in 0..MaxConn, hosts \in HostSettings,
          ports \in PortSettings :
         Built(NoConn, [NoAddOn EXCEPT !.slug = slug, !.nConn = nConn,
                                       !.hosts = hosts, !.ports = ports])
    /\ ~hasEngine

NextAddOn == AddOnInit

SpecAddOn == InitAddOn /\ [][NextAddOn]_vars

\* Two callers of one instance with a remote client, single server or
\* cluster: each sets keys at level BOTH, one of them may dispose.
InitConn == (\E cluster \in BOOLEAN : Built([NoConn EXCEPT !.cluster = cluster], NoAddOn))
            /\ hasEngine

NextConn ==
    \/ \E t \in TaskIds, key \in UserKeys : TaskSet(t, key)
    \/ \E t \in TaskIds : TaskExec(t)
    \/ \E t \in TaskIds : TaskConfig(t)
    \/ \E t \in TaskIds : TaskConfigFails(t)
    \/ \E t \in TaskIds : TaskSubscribed(t)
    \/ \E t \in TaskIds : TaskDispose(t)
    \/ \E t \in TaskIds : TaskDisposeReply(t)
    \/ TaskDrop
    \/ conn.listeners > 0 /\ ~Disposed /\ Deliver
    \/ \E h \in HandlerIds : HandlerResume(h)
    \/ \E h \in HandlerIds : HandlerReply(h)

SpecConn == InitConn /\ [][NextConn]_vars

\* Arrays kept in sync: BOTH-level setArray and getArray, and another
\* process that writes the JSON text of an array to the same keys.
NextArray ==
    \/ \E key \in UserKeys, arr \in Arrays :
         CallSet("setArray", key, FALSE, arr, LEVEL_BOTH, 0)
    \/ \E key \in UserKeys, force \in BOOLEAN :
         CallGet("getArray", key, FALSE, force, TRUE)
    \/ \E key \in UserKeys, text \in ArrTexts : ExtSet(RealKey(key), text)
    \/ SetExec
    \/ SetSubscribed
    \/ GetReply
    \/ HandlerStep

SpecArray == InitRemote /\ [][NextArray]_vars

\* BOTH-level sets whose remote write may fail, and default gets.
NextFail ==
    \/ \E kind \in SetKinds, duration \in Durations :
         \E value \in ValuesOf(kind) : CallSet(kind, K1, FALSE, value, LEVEL_BOTH, duration)
    \/ \E kind \in GetKinds : CallGet(kind, K1, FALSE, FALSE, TRUE)
    \/ SetExec
    \/ SetExecFails
    \/ SetSubscribed
    \/ GetReply
    \/ HandlerStep

SpecFail == InitRemote /\ [][NextFail]_vars

\* Calls with and without a key, on an instance that never subscribes.
ArgKeys == {UndefKey, Missing}

NextArgs ==
    \/ \E kind \in SetKinds, key \in ArgKeys, isGlobal \in BOOLEAN,
          level \in {0, LEVEL_LOCAL, LEVEL_REMOTE} :
         CallSet(kind, key, isGlobal, CHOOSE value \in ValuesOf(kind) : TRUE, level, 0)
    \/ \E kind \in GetKinds, key \in ArgKeys, isGlobal \in BOOLEAN, force \in BOOLEAN :
         CallGet(kind, key, isGlobal, force, TRUE)
    \/ \E key \in ArgKeys, isGlobal \in BOOLEAN : CallDelete(key, isGlobal)
    \/ SetExec
    \/ GetReply
    \/ DeleteReply

SpecArgs == Init /\ [][NextArgs]_vars

\* Values of every shape, among them strings whose text is JSON
CodecPrims   == {Str("a"), Str("7"), Num("7"), Bool("true"), Str("true")}
CodecObjects == {Obj([age |-> Num("7")]), Obj([age |-> Str("a")]), Obj([age |-> Str("7")])}

CodecValues(kind) ==
    IF kind = "setPrimitive" THEN CodecPrims
    ELSE IF kind = "setArray" THEN Arrays
    ELSE CodecObjects

\* The remote tier alone: sets at level REMOTE of prefixed and global keys
\* and forceRemote gets, with and without parsing.
NextCodec ==
    \/ \E kind \in SetKinds, isGlobal \in BOOLEAN :
         \E value \in CodecValues(kind) :
            CallSet(kind, K1, isGlobal, value, LEVEL_REMOTE, 0)
    \/ \E kind \in GetKinds, isGlobal \in BOOLEAN, parseType \in BOOLEAN :
         CallGet(kind, K1, isGlobal, TRUE, parseType)
    \/ SetExec
    \/ GetReply

SpecCodec == InitRemote /\ [][NextCodec]_vars

Patterns == {<<"*", "k1">>, <<"*">>}

\* The cursors the server answers a SCAN with
Cursors == {"0", "5"}

\* Pattern deletes on an instance with a remote client that holds prefixed
\* and global keys in either tier.
NextPattern ==
    \/ \E key \in UserKeys, isGlobal \in BOOLEAN, level \in {LEVEL_LOCAL, LEVEL_REMOTE} :
         CallSet("setPrimitive", key, isGlobal, Str("a"), level, 0)
    \/ \E pattern \in Patterns : CallDeletePattern(pattern)
    \/ SetExec
    \/ \E batch \in SUBSET {k \in AllKeys : remote[k] # Nil}, cursor \in Cursors :
         ScanReply(batch, cursor)
    \/ PatternDelReply

SpecPattern == InitRemote /\ [][NextPattern]_vars

\* A local-only instance that sets keys with and without a duration and
\* deletes by pattern, while time passes.
NextPatTime ==
    \/ \E key \in UserKeys, duration \in Durations :
         CallSet("setPrimitive", key, FALSE, Str("a"), LEVEL_LOCAL, duration)
    \/ \E pattern \in Patterns : CallDeletePattern(pattern)
    \/ Tick
    \/ \E key \in UserKeys : TimerFire(RealKey(key))
    \/ \E key \in UserKeys, rem \in 0..MaxDur : OrphanFire([k |-> RealKey(key), rem |-> rem])

SpecPatTime == InitLocal /\ [][NextPatTime]_vars

\* An instance that sets keys at level BOTH and deletes by pattern when no
\* message is waiting; other clients write the keys once the pattern delete
\* has returned.
NextPatSync ==
    \/ \E key \in UserKeys : CallSet("setPrimitive", key, FALSE, Str("a"), LEVEL_BOTH, 0)
    \/ \E pattern \in Patterns :
         /\ inQ = <<>> /\ \A h \in HandlerIds : handlers[h].pc = "free"
         /\ CallDeletePattern(pattern)
    \/ SetExec
    \/ SetSubscribed
    \/ \E batch \in SUBSET {k \in AllKeys : remote[k] # Nil}, cursor \in Cursors :
         ScanReply(batch, cursor)
    \/ PatternDelReply
    \/ \E key \in UserKeys, text \in ExtTexts :
         /\ op.kind = "deletePattern" /\ op.pc = "done"
         /\ ExtSet(RealKey(key), text)
    \/ HandlerStep

SpecPatSync == InitRemote /\ [][NextPatSync]_vars


\* ------------------------------------------------------------ claims

\* A step of the caller's task other than the passing of time
CallerMoves == [op' EXCEPT !.since = 0] # [op EXCEPT !.since = 0]

SKeyNext == StoreKey(op'.key, op'.isGlobal)

\* C1: a getter fetches from the server when forceRemote is set and there is a
\* remote client; otherwise it returns the local entry when the storage key is
\* in the local store; otherwise it fetches from the server when there is a
\* remote client; otherwise it returns Nothing.  A fetch returns what the
\* server holds under the key when it answers.
C1_LookupOrder ==
    [][ (CallerMoves /\ op'.kind \in GetKinds) =>
          IF Idle
          THEN IF op'.forceRemote /\ hasEngine
               THEN op'.pc = "fetch" /\ mainQ' = Append(mainQ, USER)
               ELSE IF SKeyNext \in DOMAIN localCache
               THEN /\ op'.pc = "done" /\ mainQ' = mainQ
                    /\ op'.res = LocalResult(op'.kind, localCache[SKeyNext])
               ELSE IF hasEngine
               THEN op'.pc = "fetch" /\ mainQ' = Append(mainQ, USER)
               ELSE op'.pc = "done" /\ op'.res = Got(Nothing) /\ mainQ' = mainQ
          ELSE /\ op'.pc = "done"
               /\ op'.res = RemoteResult(op.kind, remote[SKey], op.parseType)
      ]_vars

\* C1 witnesses: an instance without a local entry gets what another client
\* wrote; a local-only instance asked with forceRemote returns its local entry.
C1_Witness ==
    /\ hasEngine /\ op.pc = "done" /\ op.kind = "getPrimitive" /\ ~op.forceRemote
    /\ ~Has(localCache, SKey)
    /\ op.res = Got(Just(Str("b")))

\* C2: a set at level LOCAL leaves the server's entry and time to live as they
\* were and sends the server nothing; a set at level REMOTE leaves the local
\* store and the expiration timers as they were; for every setter.
C2_LevelFrame ==
    [][ (CallerMoves /\ op'.kind \in SetKinds /\ op'.val # Null) =>
          /\ op'.level = LEVEL_LOCAL =>
                /\ UNCHANGED <<remote, rexp, mainQ, inQ, subVars>>
                /\ op'.pc = "done"
          /\ op'.level = LEVEL_REMOTE =>
                UNCHANGED <<localCache, cacheExps, orphans>>
      ]_vars

\* C2 witness: after a LOCAL set the local value differs from the server's,
\* which a set at level REMOTE had written
C2_Witness ==
    /\ op.pc = "done" /\ op.kind = "setPrimitive" /\ op.level = LEVEL_LOCAL
    /\ op.val = Str("a")
    /\ Has(localCache, SKey) /\ localCache[SKey] = Str("a")
    /\ remote[SKey] = RString("7")

\* C4: a set that names no level writes only the server when there is a remote
\* client and only the local store when there is none; it never subscribes.
C4_DefaultLevel ==
    [][ (CallerMoves /\ op'.kind \in SetKinds /\ op'.val # Null /\ op'.level = 0) =>
          /\ UNCHANGED subVars
          /\ IF hasEngine
             THEN /\ UNCHANGED <<localCache, cacheExps, orphans>>
                  /\ IF Idle THEN op'.pc = "exec"
                     ELSE /\ op'.pc = "done"
                          /\ remote'[SKey] = WireValue(op.kind, StoredValue(op.kind, op.val))
             ELSE /\ UNCHANGED <<remote, rexp, mainQ, inQ>>
                  /\ op'.pc = "done"
                  /\ Has(localCache', SKeyNext)
                  /\ localCache'[SKeyNext] = StoredValue(op'.kind, op'.val)
      ]_vars

\* C4 witness: with a remote client the value is on the server and not local
C4_Witness ==
    /\ hasEngine /\ op.pc = "done" /\ op.kind = "setObject" /\ op.level = 0
    /\ op.res = Ok
    /\ remote[SKey] = RHash([age |-> "7"])
    /\ ~Has(localCache, SKey)

\* C5: a setter given null fails with InvalidArgument, at every level and in
\* either mode, and changes nothing: not the local store, the timers, the
\* server, the subscriptions, nor what is in flight.
C5_NullRejected ==
    [][ (CallerMoves /\ op'.kind \in SetKinds /\ op'.val = Null) =>
          /\ op'.pc = "done"
          /\ op'.res = Failed("InvalidArgument")
          /\ UNCHANGED <<localCache, cacheExps, orphans, cacheLocks, subVars,
                         serverVars, inQ, mainQ, handlers>>
      ]_vars

\* C5 witness: a BOTH-level setArray of null on an instance with a remote
\* client, refused
C5_Witness ==
    /\ hasEngine /\ op.kind = "setArray" /\ op.level = LEVEL_BOTH /\ op.val = Null
    /\ op.res = Failed("InvalidArgument")
    /\ engineSub

\* The getter of the same shape as a setter
ReadKind(kind) ==
    IF kind = "setObject" THEN "getObject"
    ELSE IF kind = "setArray" THEN "getArray" ELSE "getPrimitive"

\* C3 (read through the tiers the level includes): when a set returns, the
\* local store holds the stored value under the key if the level includes
\* LOCAL, and a forceRemote get of the same shape would return the value if
\* the level includes REMOTE.
C3_PresentThroughIncludedTiers ==
    [][ (CallerMoves /\ op'.kind \in SetKinds /\ op'.pc = "done" /\ op'.res = Ok) =>
          /\ IncludeBit(op'.level, LEVEL_LOCAL) =>
                /\ Has(localCache', SKeyNext)
                /\ localCache'[SKeyNext] = StoredValue(op'.kind, op'.val)
          /\ IncludeBit(op'.level, LEVEL_REMOTE) =>
                RemoteResult(ReadKind(op'.kind), remote'[SKeyNext], TRUE) = Got(Just(op'.val))
      ]_vars

\* C6: in local-only mode, after setPrimitive(k, v) the local store answers
\* v for k, and a delete(k) returns without an error and leaves no entry.
C6_LocalOnlyRoundTrip ==
    (~hasEngine /\ op.pc = "done") =>
        /\ (op.kind = "setPrimitive" /\ op.level = 0) =>
              /\ op.res = Ok
              /\ Has(localCache, SKey) /\ localCache[SKey] = op.val
        /\ op.kind = "delete" =>
              /\ op.res = Ok
              /\ ~Has(localCache, SKey)

\* C7 (no remote call): in local-only mode no operation sends a call to the
\* server or fails on the missing client.
C7_LocalOnlyNoRemoteCall ==
    ~hasEngine => /\ mainQ = <<>> /\ inQ = <<>>
                  /\ op.res.st # "TypeError"

\* C8: when delete(k) of an exact key returns on an instance with a remote
\* client, k is not in the local store, not on the server, and its channel is
\* not subscribed.
C8_DeleteLeavesNothing ==
    [][ (CallerMoves /\ hasEngine /\ op'.kind = "delete" /\ op'.pc = "done") =>
          /\ ~Has(localCache', SKeyNext)
          /\ remote'[SKeyNext] = Nil
          /\ Channel(SKeyNext) \notin subs'
      ]_vars

\* The local entry of the instance's key k is what the sync handler would
\* store for the remote entry as it is now (no entry when the key is gone).
Coherent(k) ==
    LET sk == RealKey(k)
        rv == remote[sk]
    IN  IF rv = Nil THEN ~Has(localCache, sk)
        ELSE /\ Has(localCache, sk)
             /\ Just(localCache[sk]) = IF rv.t = "hash"
                                       THEN FetchObject(ReplyHgetall(rv), TRUE)
                                       ELSE FetchPrimitive(ReplyGet(rv), TRUE)

\* A handler invocation whose remote fetch was rejected
SomeDead == \E h \in HandlerIds : handlers[h].pc = "dead"

\* C9 (sync coherence): whenever a key registered for sync differs locally
\* from the remote entry, the local entry eventually equals the remote value,
\* unless a remote call of the handler fails; for both keys at once.
C9_SyncCoherence ==
    \A k \in UserKeys :
        (Channel(RealKey(k)) \in subs /\ ~Coherent(k)) ~> (Coherent(k) \/ SomeDead)

C9_Witness ==
    /\ ~SomeDead
    /\ extLeft[RealKey(K1)] = 0 /\ extLeft[RealKey(K2)] = 0
    /\ Channel(RealKey(K1)) \in subs /\ Channel(RealKey(K2)) \in subs
    /\ Has(localCache, RealKey(K1)) /\ Has(localCache, RealKey(K2))
    /\ remote[RealKey(K1)] = RString("b") /\ localCache[RealKey(K1)] = Str("b")
    /\ remote[RealKey(K2)] = RHash([age |-> "b"])
    /\ localCache[RealKey(K2)] = Obj([age |-> Str("b")])

\* C10 (expiry): once more than d seconds have passed since a set with
\* duration d > 0 returned, with no operation after it, a LOCAL-level set has
\* left no local entry (a default get answers Absent when the server has no
\* entry), and a REMOTE-level set on an instance with a remote client has left
\* no remote entry (a forceRemote get answers Absent).
C10_Expiry ==
    (/\ op.pc = "done" /\ op.kind = "setPrimitive" /\ op.res = Ok
     /\ op.dur > 0 /\ op.since > op.dur)
    => /\ op.level = LEVEL_LOCAL =>
            /\ ~Has(localCache, SKey)
            /\ remote[SKey] = Nil =>
                  /\ Route(FALSE, hasEngine, Has(localCache, SKey)) # "local"
                  /\ RemoteResult("getPrimitive", remote[SKey], TRUE) = Got(Nothing)
       /\ (op.level = LEVEL_REMOTE /\ hasEngine) =>
            /\ Route(TRUE, hasEngine, Has(localCache, SKey)) = "remote"
            /\ RemoteResult("getPrimitive", remote[SKey], TRUE) = Got(Nothing)

C10_Witness ==
    /\ op.pc = "done" /\ op.kind = "setPrimitive" /\ op.level = LEVEL_LOCAL
    /\ op.dur = MaxDur /\ op.since = MaxDur + 1
    /\ ~Has(localCache, SKey) /\ remote[SKey] = Nil /\ orphans = {}

\* No message, reply or handler invocation is outstanding
Quiet ==
    /\ inQ = <<>> /\ mainQ = <<>>
    /\ \A h \in HandlerIds : handlers[h].pc = "free"

\* C11 (TTL at level BOTH): once more than d seconds have passed since a
\* BOTH-level set with duration d > 0 returned, with no operation after it
\* and every keyspace message handled, the server has no entry for the key
\* and neither has the local store.
C11_TtlBoth ==
    (/\ op.pc = "done" /\ op.kind \in SetKinds /\ op.res = Ok
     /\ op.level = LEVEL_BOTH /\ op.dur > 0 /\ op.since > op.dur /\ Quiet)
    => /\ remote[SKey] = Nil
       /\ ~Has(localCache, SKey)

\* C12 (no TTL): while a set without a positive duration is the instance's
\* last operation, the entry it wrote stays: the local entry is not removed by
\* an expiration callback, and the remote entry has no time to live.
C12_NoTtlNeverExpires ==
    (/\ op.pc = "done" /\ op.kind \in SetKinds /\ op.res = Ok /\ op.dur <= 0)
    => /\ IncludeBit(DefaultLevel(op.level), LEVEL_LOCAL) => Has(localCache, SKey)
       /\ (hasEngine /\ IncludeBit(DefaultLevel(op.level), LEVEL_REMOTE)) =>
             /\ remote[SKey] # Nil
             /\ rexp[SKey] = NoTtl

\* C13 (pattern delete): when delete(p, {isPattern: true}) has returned on an
\* instance with a remote client, no key matching p is left in the local
\* store or on the server, however the SCAN replies were cut.
C13_PatternDeleteLeavesNoMatch ==
    (hasEngine /\ op.kind = "deletePattern" /\ op.pc = "done") =>
        \A k \in AllKeys :
            Matches(op.key, k) => remote[k] = Nil /\ ~Has(localCache, k)

\* C14 (names keep instances apart): on an instance that has stored nothing
\* itself, no get of a non-global key returns a value, whatever another
\* instance with a different name has set under its own non-global keys.
C14_NamesIsolate ==
    (op.kind \in GetKinds /\ op.pc = "done" /\ ~op.isGlobal) => op.res = Got(Nothing)

\* A setter returns successfully after writing the remote tier
RemoteSetDone ==
    /\ CallerMoves /\ hasEngine
    /\ op'.kind \in SetKinds /\ op'.pc = "done" /\ op'.res = Ok
    /\ IncludeBit(DefaultLevel(op'.level), LEVEL_REMOTE)

\* The string form of a value, and of every field of an object
AsString(v) == Str(JsText(v))
AllStrings(obj) == Obj([p \in DOMAIN obj.f |-> AsString(obj.f[p])])

\* C15 (global keys): when a set with isGlobal at a level that includes
\* REMOTE returns, the value is stored under the key without a prefix, a
\* forceRemote get with isGlobal of any instance returns Present of the value
\* set, and the prefixed key of every instance is as it was (a reader without
\* isGlobal gets Absent if the key was absent).
C15_GlobalVisible ==
    [][ (RemoteSetDone /\ op'.isGlobal) =>
          /\ remote'[op'.key] = WireValue(op'.kind, StoredValue(op'.kind, op'.val))
          /\ RemoteResult(ReadKind(op'.kind), remote'[op'.key], TRUE) = Got(Just(op'.val))
          /\ \A n \in {Name} \cup OtherNames :
                /\ remote'[RealKeyOf(n, op'.key)] = remote[RealKeyOf(n, op'.key)]
                /\ remote[RealKeyOf(n, op'.key)] = Nil =>
                      RemoteResult(ReadKind(op'.kind), remote'[RealKeyOf(n, op'.key)], TRUE)
                        = Got(Nothing)
      ]_vars

\* C17 (round trip through the remote tier): when a set of v returns, a
\* forceRemote get of the same shape with parseType true would return v, and
\* with parseType false the string form of a primitive and the all-strings
\* mapping of an object.
C17_RoundTrip ==
    [][ RemoteSetDone =>
          /\ RemoteResult(ReadKind(op'.kind), remote'[SKeyNext], TRUE) = Got(Just(op'.val))
          /\ op'.kind = "setPrimitive" =>
                RemoteResult("getPrimitive", remote'[SKeyNext], FALSE)
                  = Got(Just(AsString(op'.val)))
          /\ op'.kind = "setObject" =>
                RemoteResult("getObject", remote'[SKeyNext], FALSE)
                  = Got(Just(AllStrings(op'.val)))
      ]_vars

\* What a getter with default options answers on key skey when nothing else
\* happens between its call and its reply (lines 171-233)
DefaultGet(kind, skey, cache, engine, rem) ==
    LET way == Route(FALSE, engine, Has(cache, skey))
    IN  IF way = "local" THEN LocalResult(kind, cache[skey])
        ELSE IF way = "remote" THEN RemoteResult(kind, rem[skey], TRUE)
        ELSE Got(Nothing)

\* C16 (read-your-writes): when a set of v at any level returns successfully,
\* a get of the same shape with default options on the same instance answers
\* Present(v), whatever earlier sets left in the two tiers.
C16_ReadYourWrites ==
    [][ (CallerMoves /\ op'.kind \in SetKinds /\ op'.pc = "done" /\ op'.res = Ok) =>
          DefaultGet(ReadKind(op'.kind), SKeyNext, localCache', hasEngine', remote')
            = Got(Just(op'.val))
      ]_vars

\* The last call was a set that returned successfully just now, and the
\* local tier still holds what it wrote
JustSet ==
    /\ op.pc = "done" /\ op.kind \in SetKinds /\ op.res = Ok /\ op.since = 0
    /\ IncludeBit(DefaultLevel(op.level), LEVEL_LOCAL) =>
          /\ Has(localCache, SKey)
          /\ localCache[SKey] = StoredValue(op.kind, op.val)
          /\ op.dur > 0 => Has(cacheExps, SKey) /\ cacheExps[SKey] = op.dur

\* C18 (set is idempotent): when the set that has just returned is called
\* again with the same arguments and returns at once, the local store, the
\* pending expiration callbacks, the subscriptions and the server are as the
\* first call left them.
C18_SetIdempotent ==
    [][ (/\ JustSet
         /\ CallSet(op.kind, op.key, op.isGlobal, op.val, op.level, op.dur)
         /\ op'.pc = "done") =>
          /\ localCache' = localCache
          /\ cacheExps' = cacheExps
          /\ orphans' = orphans
          /\ subs' = subs
          /\ remote' = remote /\ rexp' = rexp
      ]_vars

\* C19 (dispose): once dispose has returned, no expiration callback of the
\* instance is pending, the connections are closed, and the local store, the
\* timer map and the lock-queue map are empty.
C19_DisposeCancelsTimers ==
    Disposed =>
        /\ orphans = {}
        /\ ~hasEngine /\ ~engineSub
        /\ localCache = Empty /\ cacheExps = Empty /\ cacheLocks = Empty

\* C20 (a set at BOTH subscribes): once a set at level BOTH has returned
\* successfully on an instance with a remote client, the keyspace channel
\* "__keyspace@0__:" + storage key is among the instance's subscriptions; no
\* step of a set at another level, or of any set without a remote client,
\* changes the subscriptions.
C20_BothSubscribes ==
    /\ [](( /\ op.pc = "done" /\ op.kind \in SetKinds /\ op.res = Ok
            /\ op.level = LEVEL_BOTH /\ hasEngine ) =>
              (<<EVENT_PREFIX>> \o SKey) \in subs)
    /\ [][ (op'.kind \in SetKinds /\ (op'.level # LEVEL_BOTH \/ ~hasEngine)) =>
              subs' = subs ]_vars

C20_Witness ==
    /\ hasEngine /\ engineSub
    /\ op.pc = "done" /\ op.kind \in SetKinds /\ op.res = Ok /\ op.level = LEVEL_BOTH
    /\ subs = {<<EVENT_PREFIX>> \o SKey}
    /\ Has(localCache, SKey) /\ remote[SKey] # Nil

\* C21 (missing key): a getter, a setter or delete called without a key, with
\* or without isGlobal, returns InvalidArgument at once and leaves the local
\* store, the timers, the subscriptions and both connections as they were.
C21_MissingKeyRejected ==
    [][ (/\ CallerMoves
         /\ op'.kind \in GetKinds \cup SetKinds \cup {"delete"}
         /\ op'.key = Missing) =>
          /\ op'.pc = "done" /\ op'.res = Failed("InvalidArgument")
          /\ UNCHANGED <<localCache, cacheExps, orphans, subVars, mainQ, inQ>>
      ]_vars

\* Invocation h of the handler is past `await this._lockKey(key)` and has
\* not run _releaseKey
Holding(h) == handlers[h].pc \in {"run", "ready", "fetch", "dead"}
Waiting(h) == handlers[h].pc = "wait"

Holders == {h \in HandlerIds : Holding(h)}
Waiters == {h \in HandlerIds : Waiting(h)}

\* C22 (mutual exclusion of sync work): at most one invocation of the handler
\* is between its lock acquire and its release; every other invocation that
\* has not finished is waiting, so at most one remote fetch of a handler is
\* outstanding.
C22_MutualExclusion ==
    /\ Cardinality(Holders) <= 1
    /\ Len(SelectSeq(mainQ, LAMBDA c : c # USER)) <= 1

C22_Witness ==
    /\ \E h \in HandlerIds : handlers[h].pc = "fetch"
    /\ Cardinality(Waiters) = MaxHandlers - 1
    /\ ~SomeDead

\* The invocations that a step takes from waiting to running
Woken == {x \in HandlerIds : Waiting(x) /\ handlers'[x].pc = "ready"}

\* Invocation h runs _releaseKey in this step
Releases(h) == Holding(h) /\ handlers'[h].pc = "free"

\* C23 (waiters are served in order): the chain holds the lock of every
\* unfinished invocation once, newest first; an invocation that releases pops
\* its own lock, the oldest, and wakes exactly the invocation that acquired
\* next after it, if there is one; a waiting invocation goes on only when
\* the invocation it waits for releases.
C23_ServedInOrder ==
    [][ LET chain == IF Has(cacheLocks, handlerKey) THEN cacheLocks[handlerKey] ELSE <<>>
            n     == Len(chain)
        IN  /\ \A i, j \in 1..n : chain[i] = chain[j] => i = j
            /\ \A h \in HandlerIds : Releases(h) =>
                  /\ chain[n] = h
                  /\ Woken = IF n >= 2 THEN {chain[n - 1]} ELSE {}
                  /\ n >= 2 => handlers[chain[n - 1]].waitOn = h
                  /\ cacheLocks' = PopLock(cacheLocks, handlerKey)
            /\ Woken # {} => \E h \in HandlerIds : Releases(h)
      ]_vars

C23_Witness ==
    \E x, y \in HandlerIds :
        /\ handlers[x].pc = "ready"
        /\ handlers[y].pc = "wait" /\ handlers[y].waitOn = x
        /\ cacheLocks[handlerKey] = <<y, x>>

\* The lock of invocation h is in the chain of the handler's key
InChain(h) ==
    /\ Has(cacheLocks, handlerKey)
    /\ \E i \in 1..Len(cacheLocks[handlerKey]) : cacheLocks[handlerKey][i] = h

\* C24 (release on the error path): an invocation of the handler whose remote
\* fetch was rejected has released the lock: its lock is not in the chain
\* and no invocation waits for it.
C24_ReleasedOnError ==
    \A h \in HandlerIds : handlers[h].pc = "dead" =>
        /\ ~InChain(h)
        /\ \A x \in HandlerIds : ~(Waiting(x) /\ handlers[x].waitOn = h)

\* No keyspace message is in flight and every invocation has finished
NoEventPending ==
    /\ SelectSeq(inQ, LAMBDA m : ~IsReply(m)) = <<>>
    /\ \A h \in HandlerIds : handlers[h].pc = "free"

\* C25 (progress of sync work): unless a remote fetch of a handler is
\* rejected, every invocation of the handler that has started eventually
\* finishes (it acquires the lock, applies its event and releases), and
\* whenever no event is pending the lock map has no chain.
C25_Progress ==
    /\ \A h \in HandlerIds :
          (handlers[h].pc # "free") ~> (handlers[h].pc = "free" \/ SomeDead)
    /\ [](NoEventPending => cacheLocks = Empty)

C25_Witness ==
    /\ ~SomeDead
    /\ \E h \in HandlerIds : handlers[h].pc = "ready" /\ cacheLocks[handlerKey] = <<h>>
    /\ inQ = <<>>
    /\ \A k \in UserKeys : extLeft[RealKey(k)] = 0

\* The invocations whose lock is in the chain ch
Members(ch) == {ch[i] : i \in 1..Len(ch)}

\* C26 (no empty chain): the lock map holds no empty chain and no chain holds
\* an entry that is not the lock of an invocation; the only chain is that of
\* the handler's key, and it holds exactly the locks of the invocations that
\* are running or waiting and have not released, so it is absent exactly
\* when there is none.
C26_ChainsNonEmpty ==
    /\ \A k \in DOMAIN cacheLocks :
          /\ cacheLocks[k] # <<>>
          /\ Members(cacheLocks[k]) \subseteq HandlerIds
          /\ k = handlerKey
          /\ Members(cacheLocks[k]) = Holders \cup Waiters
    /\ cacheLocks = Empty <=> Holders \cup Waiters = {}

C26_Witness ==
    /\ cacheLocks = Empty
    /\ engineSub /\ handlerKey = RealKey(K2)
    /\ \A k \in UserKeys : extLeft[RealKey(k)] = 0 /\ Has(localCache, RealKey(k))
    /\ inQ = <<>> /\ mainQ = <<>>

\* The local entry of key k: its value, or Nothing
LocalEntry(cache, k) == IF Has(cache, k) THEN Just(cache[k]) ELSE Nothing

\* C27 (the caller does not interleave with the handler): while an invocation
\* of the handler is between its remote fetch and its local write, no step
\* of the caller changes the local entry of the key the invocation works on.
C27_CallerKeepsOut ==
    [][ \A h \in HandlerIds :
          (handlers[h].pc = "fetch" /\ CallerMoves) =>
              LocalEntry(localCache', handlers[h].akey)
                = LocalEntry(localCache, handlers[h].akey)
      ]_vars

\* The expiration callbacks of key k that are pending
Pending(k) ==
    Cardinality({t \in orphans : t.k = k}) + (IF Has(cacheExps, k) THEN 1 ELSE 0)

\* C28 (one timer per key): no key has more than one pending expiration
\* callback, and while the local entry written by the last set with a
\* positive duration d is in the local store its callback is pending and due
\* d seconds after that set.
C28_OneTimerPerKey ==
    /\ \A k \in AllKeys : Pending(k) <= 1
    /\ ( /\ op.pc = "done" /\ op.kind \in SetKinds /\ op.res = Ok /\ op.dur > 0
         /\ IncludeBit(DefaultLevel(op.level), LEVEL_LOCAL)
         /\ Has(localCache, SKey) ) =>
            /\ Has(cacheExps, SKey)
            /\ cacheExps[SKey] = op.dur - op.since

\* C29 (arrays stay JSON text locally): the local entry of a key written
\* with setArray is the JSON text of an array, for which getArray answers
\* Present of that array; and a getArray that has returned has not failed.
C29_ArrayStaysText ==
    /\ \A key \in UserKeys :
          Has(localCache, RealKey(key)) =>
              \E arr \in Arrays :
                  /\ localCache[RealKey(key)] = Stringify(arr)
                  /\ LocalResult("getArray", localCache[RealKey(key)]) = Got(Just(arr))
    /\ (op.kind = "getArray" /\ op.pc = "done") =>
          op.res \in {Got(Nothing)} \cup {Got(Just(arr)) : arr \in Arrays}

\* The shape of the value last written, as a local entry and as the server's
\* entry show it: "object", "array" (the JSON text of an array, or the array
\* a handler stored) or "primitive"
ShapeLocal(v) ==
    IF v.t = "obj" THEN "object"
    ELSE IF v.t = "arr" \/ (v.t = "str" /\ v.s \in ArrTexts) THEN "array"
    ELSE "primitive"

ShapeRemote(rv) ==
    IF rv.t = "hash" THEN "object"
    ELSE IF rv.s \in ArrTexts THEN "array"
    ELSE "primitive"

\* The getter kind asks for another shape than shape; text that is JSON can
\* be read as an array
Mismatch(kind, shape, isJson) ==
    \/ kind = "getArray" /\ (shape = "object" \/ (shape = "primitive" /\ ~isJson))
    \/ kind = "getPrimitive" /\ shape = "object"
    \/ kind = "getObject" /\ shape # "object"

\* C30 (shape mismatch gives Absent): a getter that returns after a local hit
\* or a remote fetch on a key whose value has another shape returns Nothing.
C30_MismatchIsAbsent ==
    [][ (CallerMoves /\ op'.kind \in GetKinds /\ op'.pc = "done" /\ op'.key # Missing) =>
          IF Idle
          THEN ( /\ Has(localCache, SKeyNext)
                 /\ localCache[SKeyNext] # Null
                 /\ Mismatch(op'.kind, ShapeLocal(localCache[SKeyNext]),
                             IsJson(JsText(localCache[SKeyNext]))) ) =>
                    op'.res = Got(Nothing)
          ELSE ( /\ remote[SKey] # Nil
                 /\ Mismatch(op.kind, ShapeRemote(remote[SKey]),
                             remote[SKey].t = "string" /\ IsJson(remote[SKey].s)) ) =>
                    op'.res = Got(Nothing)
      ]_vars

C32_GlobalSkipsLocal ==
    [][ (/\ CallerMoves /\ op'.kind \in SetKinds /\ op'.isGlobal
         /\ ~(op'.level # 0 /\ IncludeBit(op'.level, LEVEL_LOCAL))) =>
          /\ SKeyNext = op'.key
          /\ UNCHANGED <<localCache, cacheExps, orphans>>
      ]_vars

\* C33 (the SCAN loop): a pattern delete on an instance with a remote client
\* starts with one SCAN from the empty cursor; after a reply whose cursor is
\* not "0" it sends the next SCAN with that cursor; after a reply whose
\* cursor is "0" it sends no further SCAN.
C33_ScanLoop ==
    [][ /\ (CallerMoves /\ Idle /\ op'.kind = "deletePattern" /\ hasEngine) =>
              /\ op'.pc = "scan" /\ op'.cursor = ""
              /\ mainQ' = Append(mainQ, USER)
        /\ (op.kind = "deletePattern" /\ op.pc = "scan" /\ op' # op) =>
              IF op'.cursor = "0"
              THEN op'.pc \in {"pdel", "done"}
              ELSE op'.pc = "scan" /\ mainQ' = Append(Tail(mainQ), USER)
      ]_vars

C33_Witness ==
    /\ op.kind = "deletePattern" /\ op.pc = "done" /\ op.cursor = "0"
    /\ op.keySet # {}
    /\ \A k \in op.keySet : remote[k] = Nil

\* The pattern language of the claim: "*" is any run of characters, "?" is
\* zero or one character, every other character stands for itself.
RECURSIVE GlobMatches(_, _)
GlobMatches(pattern, key) ==
    IF pattern = <<>> THEN key = <<>>
    ELSE LET c    == Head(pattern)
             rest == Tail(pattern)
         IN  IF c = "*"
             THEN \E i \in 0..Len(key) : GlobMatches(rest, SubSeq(key, i + 1, Len(key)))
             ELSE IF c = "?"
             THEN \/ GlobMatches(rest, key)
                  \/ key # <<>> /\ Head(key) \in Chars /\ GlobMatches(rest, Tail(key))
             ELSE key # <<>> /\ Head(key) = c /\ GlobMatches(rest, Tail(key))

\* C34 (local pattern delete): a pattern delete removes from the local store
\* exactly the entries whose full storage key matches the pattern ("*" any
\* run, "?" zero or one character, the rest literal) and keeps every other
\* entry with its value.
C34_LocalPatternDeleteExact ==
    [][ (CallerMoves /\ op'.kind = "deletePattern" /\ op'.pc \in {"scan", "done"}
            /\ op.pc # "scan") =>
          localCache' = [k \in {x \in DOMAIN localCache : ~GlobMatches(op'.key, x)}
                            |-> localCache[k]]
      ]_vars

\* C38 (pattern delete and timers): once a pattern delete has returned, no
\* expiration timer is pending for a key that is not in the local store.
C38_PatternDeleteCancelsTimers ==
    (op.kind = "deletePattern" /\ op.pc = "done") =>
        \A k \in DOMAIN cacheExps : Has(localCache, k)

\* C39 (pattern delete and sync): from a pattern delete on, until the
\* instance's next operation, no key that matches the pattern is in the local
\* store, whatever other clients write on the server.
C39_PatternDeleteEndsSync ==
    op.kind = "deletePattern" =>
        \A k \in DOMAIN localCache : ~RegexMatches(op.key, k)

\* C36 (unusable after dispose): every getter, setter, delete and pattern
\* delete called on a disposed instance fails with an error, sends nothing to
\* the server and stores nothing.
C36_DisposedFailsAll ==
    [][ (Disposed /\ CallerMoves) =>
          /\ op'.pc = "done" /\ op'.res.st \notin {"ok", "none"}
          /\ UNCHANGED <<localCache, cacheExps, mainQ, inQ, serverVars>>
      ]_vars

\* C35 (one subscription connection): before any set there is no
\* subscription connection; while no dispose has been called there is never
\* more than one subscription connection or more than one message handler,
\* and on a cluster no connection besides the primary client; once BOTH-level
\* sets have returned and none is in progress there is exactly one handler
\* and, on a single server, exactly one subscription connection.
C35_OneSubConnection ==
    /\ (\A t \in TaskIds : tasks[t].kind = "none") =>
            ~engineSub /\ conn.open = 0 /\ conn.listeners = 0
    /\ NoDispose =>
            /\ conn.open <= 1 /\ conn.listeners <= 1
            /\ conn.cluster => conn.open = 0
            /\ ( /\ \A t \in TaskIds : TaskFree(t)
                 /\ \E t \in TaskIds : tasks[t].kind = "set" /\ tasks[t].res = Ok ) =>
                   /\ engineSub /\ conn.listeners = 1
                   /\ conn.open = IF conn.cluster THEN 0 ELSE 1

\* Two sets overlap on a single server: one awaits CONFIG SET, the other
\* its SUBSCRIBE on the connection the first one made
C35_Witness ==
    /\ ~conn.cluster /\ conn.open = 1 /\ NoDispose
    /\ \E t, u \in TaskIds : tasks[t].pc = "config" /\ tasks[u].pc = "subscribe"

\* C40 (dispose racing with a set): once dispose and every set have
\* finished, no subscription connection of the instance is open.
C40_DisposeClosesAll ==
    (Disposed /\ \A t \in TaskIds : TaskFree(t)) => conn.open = 0 /\ ~engineSub

\* What the claim expects in place i of the hosts or ports: the setting
\* itself when it is one value, its i-th element when it is an array that
\* has one, the default otherwise.
Expected(value, i, default) ==
    IF ~value.arr THEN value
    ELSE IF i <= Len(value.items) THEN Scalar(value.items[i])
    ELSE Scalar(default)

\* C37 (CacheAddOn.init): with SERVICE_SLUG and CACHE_NUM_CONN = n, init
\* builds n details, detail i with the i-th host (the one host given, or
\* 'localhost' past the end of the array) and the i-th port (default 6379),
\* as cluster when n > 1, as single when n = 1, and a local-only provider
\* when n = 0; without SERVICE_SLUG it rejects and makes no provider.
C37_AddOnInit ==
    /\ addOn.pc = "rejected" => ~addOn.slug /\ ~hasEngine /\ addOn.details = <<>>
    /\ addOn.pc = "ready" =>
          /\ addOn.slug
          /\ Len(addOn.details) = addOn.nConn
          /\ \A i \in 1..Len(addOn.details) :
                /\ addOn.details[i].host = Expected(addOn.hosts, i, DEFAULT_HOST)
                /\ addOn.details[i].port = Expected(addOn.ports, i, DEFAULT_PORT)
          /\ addOn.mode = IF addOn.nConn > 1 THEN "cluster"
                          ELSE IF addOn.nConn = 1 THEN "single" ELSE "local"
          /\ hasEngine = (addOn.nConn > 0)

=============================================================================
